---- MODULE Spec2Model ----
(***************************************************************************)
(* Ghost Viewer: the explorer's tree builder (buildTree and its helpers)   *)
(* and the server's orphan scan (POST /api/scan).                          *)
(*                                                                         *)
(* Strings are sequences of one-character strings, so that split,          *)
(* includes and endsWith are computed as the code computes them.           *)
(* A TreeNode is identified by the position of its resource in the input   *)
(* list: the code keys its nodes by URN, and URNs are unique in a          *)
(* snapshot.                                                               *)
(***************************************************************************)
EXTENDS Integers, Sequences, FiniteSets, TLC

VARIABLES
    resources,      \* StateExplorer prop: the declared resources of the snapshot
    matchedUrns,    \* StateExplorer memo: URNs of the resources passing the filters
    viewMode,       \* StateExplorer state: "list" | "tree" | "categorized"
    nodeMap,        \* buildTree local: node per resource (children, isMatch, isVisible)
    roots,          \* buildTree local: the forest's roots, in encounter order
    treeGroups,     \* StateExplorer memo: the TypeGroups buildTree returned
    calls,          \* the nodes calculateVisibility was called on, in call order
    overflow,       \* TRUE when the recursion of calculateVisibility did not end
    scanPc,         \* POST /api/scan: "idle" | "loadState" | "query" | "done" | "rejected"
    declared,       \* what reading STATE_FILE gave this scan
    warned,         \* the inner catch ran and logged its warning
    managedIds,     \* handler local: the declared identities
    awsResources,   \* handler local: the observed resources fetched so far
    token,          \* handler local: the last PaginationToken, 0 when there is none
    sent,           \* the number of GetResources requests this scan has sent
    requests,       \* the PaginationToken of each GetResources request sent, in order
    pages,          \* the responses of the tag query received, in order
    caught,         \* the value the outer catch caught
    response,       \* what the handler sent for the scan request
    loading,        \* App state: the first load or a reload is under way
    refreshing,     \* App state: a fetch of the state is under way
    error,          \* App state: the error shown in place of the tabs, <<>> for null
    metadata,       \* App state: the StateMetadata, NoMetadata for null
    fetchCount,     \* the number of fetchState calls so far
    fetches,        \* the fetchState calls whose promise chain has not settled
    handled,        \* the last fetchState call that settled, and in which handler
    value,          \* the value a caller hands to safeRender
    rendered,       \* what safeRender returned for it, once it was called
    activeTab,      \* App state: "explorer" | "hunter"
    selectedResource, \* App state: the resource of the details panel, NoSelection for null
    listVersion,    \* the fetchState call whose list resources holds, 0 for the initial []
    hunterResult,   \* App state: the ScanResult shown, NoResult for null
    hunterScanning, \* App state: a scan is under way
    hunterError,    \* App state: the error of the last scan, <<>> for null
    hunterConfig,   \* App state: appName, stage and region of the hunt
    edited,         \* what the user last typed in each field of the hunt configuration
    scanReq,        \* the POST /api/scan of the hunter that has not settled
    configPc,       \* the GET /api/config of the mount effect: "pending" | "loaded" | "failed"
    posted,         \* the number of POST /api/config requests sent: the server's STATE_FILE
    saved,          \* the number of them whose response handleUpdateConfig has handled
    portStatus,     \* what listening on each port gives: "free" | "inUse" | "denied"
    port,           \* startListening: the port of the last app.listen call
    listenPc,       \* startListening: "binding" | "listening" | "stopped"
    listening       \* the ports a server of this process listens on

varsTree == <<resources, matchedUrns, viewMode, nodeMap, roots, treeGroups, calls, overflow>>

varsScan ==
    <<scanPc, declared, warned, managedIds, awsResources, token, sent, requests, pages,
      caught, response>>

varsApp == <<loading, refreshing, error, metadata, fetchCount, fetches, handled>>

varsRender == <<value, rendered>>

varsHunter ==
    <<activeTab, selectedResource, listVersion, hunterResult, hunterScanning, hunterError,
      hunterConfig, edited, scanReq, configPc, posted, saved>>

varsListen == <<portStatus, port, listenPc, listening>>

vars == <<varsTree, varsScan, varsApp, varsRender, varsHunter, varsListen>>

----------------------------------------------------------------------------
(* Bounds *)

MaxRes == 3

\* resources in the declared state, pages of one tag query, resources that
\* one tag query returns over all its pages
MaxDeclared == 2

MaxPages == 2

MaxObserved == 2

\* the fetchState calls of a behaviour
MaxFetches == 2

\* the state paths the user saves in a behaviour
MaxSaves == 1

\* the ports above the requested one that startListening can go on to
MaxRetries == 3

\* the fields of an object handed to safeRender, and how deep objects nest in it
MaxFields == 2

MaxDepth == 2

----------------------------------------------------------------------------
(* Strings *)

\* s.includes(sub)
Includes(s, sub) ==
    \E i \in 0..(Len(s) - Len(sub)) : \A j \in 1..Len(sub) : s[i + j] = sub[j]

\* s.endsWith(suffix)
EndsWith(s, suffix) ==
    /\ Len(suffix) <= Len(s)
    /\ \A j \in 1..Len(suffix) : s[Len(s) - Len(suffix) + j] = suffix[j]

\* s.split(c).pop(): what follows the last c, the whole of s when it has no c
SplitPop(s, c) ==
    LET at == {i \in 1..Len(s) : s[i] = c}
        last == CHOOSE i \in at : \A j \in at : j <= i
    IN  IF at = {} THEN s ELSE SubSeq(s, last + 1, Len(s))

\* an absent (undefined) or empty string: both are falsy in the code
Undefined == <<>>

STACK_MARKER == <<"p","u","l","u","m","i",":","p","u","l","u","m","i",":","S","t","a","c","k">>

PROMOTED_TYPES ==
    { <<"B","u","c","k","e","t">>,
      <<"F","u","n","c","t","i","o","n">>,
      <<"D","y","n","a","m","o">>,
      <<"T","a","b","l","e">>,
      <<"A","p","i">>,
      <<"A","p","i","G","a","t","e","w","a","y">>,
      <<"V","p","c">>,
      <<"A","u","r","o","r","a">>,
      <<"C","l","u","s","t","e","r">>,
      <<"C","r","o","n">>,
      <<"Q","u","e","u","e">>,
      <<"S","t","a","t","e","M","a","c","h","i","n","e">>,
      <<"S","t","a","t","e","s">>,
      <<"S","t","a","t","i","c","S","i","t","e">>,
      <<"C","D","N">> }

getSimpleType(type) ==
    LET last == SplitPop(type, ":")
        tail == SplitPop(last, "/")
    IN  IF Includes(last, <<"/">>)
        THEN (IF tail = <<>> THEN last ELSE tail)
        ELSE last

----------------------------------------------------------------------------
(* The inputs of the explorer: snapshots of at most MaxRes resources with  *)
(* unique URNs. The first resource carries the URN of the stack resource.  *)

Digit == <<"1","2","3","4","5","6","7","8","9">>

StackUrn == <<"u","r","n",":",":","a",":",":","p","u","l","u","m","i",":","p","u","l","u","m","i",":","S","t","a","c","k",":",":","s">>

DanglingUrn == <<"u","r","n",":",":","a",":",":","t",":",":","g","o","n","e">>

UrnOf(i) ==
    IF i = 1 THEN StackUrn
    ELSE <<"u","r","n",":",":","a",":",":","t",":",":","r">> \o <<Digit[i]>>

TypeBucket == <<"s","s","t",":","a","w","s",":","B","u","c","k","e","t">>

TypeSubnet == <<"a","w","s",":","e","c","2","/","s","u","b","n","e","t",":","S","u","b","n","e","t">>

\* the type of a provider resource: its simple type is the lower-case "aws"
TypeProvider == <<"p","u","l","u","m","i",":","p","r","o","v","i","d","e","r","s",":","a","w","s">>

Types == {TypeBucket, TypeSubnet, TypeProvider}

Parents(n) == {Undefined, DanglingUrn} \cup {UrnOf(i) : i \in 1..n}

\* the snapshots of at most max resources
Snapshots(max) ==
    UNION { { [i \in 1..n |-> [urn |-> UrnOf(i), parent |-> p[i], type |-> t[i]]] :
                p \in [1..n -> Parents(n)], t \in [1..n -> Types] } : n \in 0..max }

UrnsOf(all) == {all[i].urn : i \in 1..Len(all)}

----------------------------------------------------------------------------
(* buildTree *)

\* nodeMap.has(urn)
nodeMapHas(all, urn) == \E i \in 1..Len(all) : all[i].urn = urn

\* nodeMap.get(urn): the node of the resource with that URN
nodeMapGet(all, urn) == CHOOSE i \in 1..Len(all) : all[i].urn = urn

\* first pass: one node per resource; a node refers to its resource by the
\* resource's position in the input
createNodes(all, matched) ==
    [i \in 1..Len(all) |->
        [resource |-> i, children |-> <<>>,
         isMatch |-> all[i].urn \in matched, isVisible |-> FALSE]]

\* mutant: the root decision of Tree mode forgets the stack marker
shouldBeRoot_noStackMarker(r, mode) ==
    LET isPromoted == getSimpleType(r.type) \in PROMOTED_TYPES
        stackChild == r.parent = Undefined \/ Includes(r.parent, STACK_MARKER)
    IN  IF mode = "grouped" THEN TRUE
        ELSE IF mode = "categorized" THEN isPromoted \/ stackChild
        ELSE r.parent = Undefined

\* mutant: the allowlist is looked up with the full type, not the simple type
shouldBeRoot_promotedByFullType(r, mode) ==
    LET isPromoted == r.type \in PROMOTED_TYPES
        stackChild == r.parent = Undefined \/ Includes(r.parent, STACK_MARKER)
    IN  IF mode = "grouped" THEN TRUE
        ELSE IF mode = "categorized" THEN isPromoted \/ stackChild
        ELSE stackChild

shouldBeRoot(r, mode) ==
    LET isPromoted == getSimpleType(r.type) \in PROMOTED_TYPES
        stackChild == r.parent = Undefined \/ Includes(r.parent, STACK_MARKER)
    IN  IF mode = "grouped" THEN TRUE
        ELSE IF mode = "categorized" THEN isPromoted \/ stackChild
        ELSE stackChild

\* mutant: the push to roots is not in the else branch
RECURSIVE linkNodes_rootAndChild(_, _, _, _)
linkNodes_rootAndChild(all, mode, st, i) ==
    IF i > Len(all) THEN st
    ELSE LET r == all[i]
             rooted == [st EXCEPT !.roots = Append(@, i)]
         IN  IF ~shouldBeRoot(r, mode) /\ r.parent # Undefined /\ nodeMapHas(all, r.parent)
             THEN linkNodes_rootAndChild(all, mode,
                     [rooted EXCEPT !.nodeMap[nodeMapGet(all, r.parent)].children = Append(@, i)],
                     i + 1)
             ELSE linkNodes_rootAndChild(all, mode, rooted, i + 1)

\* second pass: each node goes to its parent's children or to roots
RECURSIVE linkNodes(_, _, _, _)
linkNodes(all, mode, st, i) ==
    IF i > Len(all) THEN st
    ELSE LET r == all[i]
         IN  IF ~shouldBeRoot(r, mode) /\ r.parent # Undefined /\ nodeMapHas(all, r.parent)
             THEN linkNodes(all, mode,
                     [st EXCEPT !.nodeMap[nodeMapGet(all, r.parent)].children = Append(@, i)],
                     i + 1)
             ELSE linkNodes(all, mode, [st EXCEPT !.roots = Append(@, i)], i + 1)

\* calculateVisibility(node), with the depth of the call stack counted down
\* in fuel: a stack deeper than the number of nodes holds a node twice, and
\* the recursion then never ends (overflow).
\* node.isVisible = node.isMatch || childVisible; return node.isVisible
setVisible(n, c) ==
    IF c.st.overflow THEN [st |-> c.st, ret |-> FALSE]
    ELSE [st |-> [c.st EXCEPT !.nodeMap[n].isVisible = c.st.nodeMap[n].isMatch \/ c.childVisible],
          ret |-> c.st.nodeMap[n].isMatch \/ c.childVisible]

\* if (calculateVisibility(child)) childVisible = true
noteChild(r, childVisible) == [st |-> r.st, childVisible |-> childVisible \/ r.ret]

RECURSIVE calculateVisibility(_, _, _), visitChildren(_, _, _, _)
calculateVisibility(st, n, fuel) ==
    IF fuel = 0 THEN [st |-> [st EXCEPT !.overflow = TRUE], ret |-> FALSE]
    ELSE setVisible(n,
            visitChildren([st |-> [st EXCEPT !.calls = Append(@, n)], childVisible |-> FALSE],
                          n, 1, fuel - 1))
visitChildren(c, n, k, fuel) ==
    IF c.st.overflow \/ k > Len(c.st.nodeMap[n].children) THEN c
    ELSE visitChildren(
            noteChild(calculateVisibility(c.st, c.st.nodeMap[n].children[k], fuel), c.childVisible),
            n, k + 1, fuel)

\* roots.forEach(calculateVisibility)
RECURSIVE visitRoots(_, _)
visitRoots(st, k) ==
    IF st.overflow \/ k > Len(st.roots) THEN st
    ELSE visitRoots(calculateVisibility(st, st.roots[k], Len(st.nodeMap) + 1).st, k + 1)

\* mutant: the invisible roots are grouped too
RECURSIVE groupRoots_noVisibleCheck(_, _, _, _)
groupRoots_noVisibleCheck(all, st, groups, k) ==
    IF k > Len(st.roots) THEN groups
    ELSE LET n == st.roots[k]
             typeName == getSimpleType(all[st.nodeMap[n].resource].type)
             at == {g \in 1..Len(groups) : groups[g].typeName = typeName}
         IN  IF at = {}
             THEN groupRoots_noVisibleCheck(all, st,
                     Append(groups, [typeName |-> typeName, nodes |-> <<n>>]), k + 1)
             ELSE groupRoots_noVisibleCheck(all, st,
                     [groups EXCEPT ![CHOOSE g \in at : TRUE].nodes = Append(@, n)], k + 1)

\* roots.forEach: the visible roots by simple type, groups in insertion order
RECURSIVE groupRoots(_, _, _, _)
groupRoots(all, st, groups, k) ==
    IF k > Len(st.roots) THEN groups
    ELSE LET n == st.roots[k]
             typeName == getSimpleType(all[st.nodeMap[n].resource].type)
             at == {g \in 1..Len(groups) : groups[g].typeName = typeName}
         IN  IF ~st.nodeMap[n].isVisible THEN groupRoots(all, st, groups, k + 1)
             ELSE IF at = {}
             THEN groupRoots(all, st, Append(groups, [typeName |-> typeName, nodes |-> <<n>>]), k + 1)
             ELSE groupRoots(all, st,
                     [groups EXCEPT ![CHOOSE g \in at : TRUE].nodes = Append(@, n)], k + 1)

\* a.localeCompare(b) < 0: letters compare without case first, then a
\* lower-case letter sorts before its upper-case form
Lower == <<"a","b","c","d","e","f","g","h","i","j","k","l","m","n","o","p","q","r","s","t","u","v","w","x","y","z">>

Upper == <<"A","B","C","D","E","F","G","H","I","J","K","L","M","N","O","P","Q","R","S","T","U","V","W","X","Y","Z">>

Punct == <<"_", "-", ":", "/">>

\* primary weight: punctuation, then digits, then letters
primary(c) ==
    IF \E i \in 1..Len(Lower) : Lower[i] = c \/ Upper[i] = c
    THEN Len(Punct) + 10 + (CHOOSE i \in 1..Len(Lower) : Lower[i] = c \/ Upper[i] = c)
    ELSE IF c = "0" THEN Len(Punct) + 1
    ELSE IF \E i \in 1..Len(Digit) : Digit[i] = c
    THEN Len(Punct) + 1 + (CHOOSE i \in 1..Len(Digit) : Digit[i] = c)
    ELSE IF \E i \in 1..Len(Punct) : Punct[i] = c
    THEN CHOOSE i \in 1..Len(Punct) : Punct[i] = c
    ELSE 0

\* tertiary weight: lower case before upper case
tertiary(c) == IF \E i \in 1..Len(Upper) : Upper[i] = c THEN 1 ELSE 0

\* the weight of character c at a comparison level
weight(c, level) == IF level = "primary" THEN primary(c) ELSE tertiary(c)

\* lexicographic order of the weights of the characters of a and b
LexLess(a, b, level) ==
    \E i \in 1..Len(b) :
        /\ i - 1 <= Len(a)
        /\ \A j \in 1..(i - 1) : weight(a[j], level) = weight(b[j], level)
        /\ (i > Len(a) \/ weight(a[i], level) < weight(b[i], level))

localeCompareLess(a, b) ==
    \/ LexLess(a, b, "primary")
    \/ (~LexLess(b, a, "primary") /\ LexLess(a, b, "tertiary"))

\* the place of group g among the sorted groups rest: behind the last group
\* that g does not sort before
insertGroup(rest, g) ==
    LET before == {i \in 1..Len(rest) : ~localeCompareLess(g.typeName, rest[i].typeName)}
        cut == IF before = {} THEN 0 ELSE CHOOSE i \in before : \A j \in before : j <= i
    IN  SubSeq(rest, 1, cut) \o <<g>> \o SubSeq(rest, cut + 1, Len(rest))

\* mutant: the groups are returned in insertion order
sortGroups_unsorted(groups) == groups

\* Array.prototype.sort with the comparator of buildTree: a stable insertion
RECURSIVE sortGroups(_)
sortGroups(groups) ==
    IF Len(groups) <= 1 THEN groups
    ELSE insertGroup(sortGroups(SubSeq(groups, 1, Len(groups) - 1)), groups[Len(groups)])

\* the TypeGroups of the return statement
toTypeGroups(groups) ==
    [g \in 1..Len(groups) |->
        [typeName |-> groups[g].typeName, nodes |-> groups[g].nodes,
         isVisible |-> Len(groups[g].nodes) > 0]]

\* the locals of a call and what it returns; nothing is returned when the
\* recursion did not end
returned(all, visited) ==
    [nodeMap |-> visited.nodeMap, roots |-> visited.roots, calls |-> visited.calls,
     overflow |-> visited.overflow,
     groups |-> IF visited.overflow THEN <<>>
                ELSE toTypeGroups(sortGroups(groupRoots(all, visited, <<>>, 1)))]

buildTree(allResources, matched, mode) ==
    returned(allResources, visitRoots(
        linkNodes(allResources, mode,
                  [nodeMap |-> createNodes(allResources, matched), roots |-> <<>>,
                   calls |-> <<>>, overflow |-> FALSE], 1), 1))

----------------------------------------------------------------------------
(* POST /api/scan *)

\* s.split(c) for c one of the characters of seps
RECURSIVE Split(_, _)
Split(s, seps) ==
    LET at == {i \in 1..Len(s) : s[i] \in seps}
        first == CHOOSE i \in at : \A j \in at : i <= j
    IN  IF at = {} THEN <<s>>
        ELSE <<SubSeq(s, 1, first - 1)>> \o Split(SubSeq(s, first + 1, Len(s)), seps)

BucketArn == <<"a","r","n",":","a","w","s",":","s","3",":",":",":","m","y","-","b","u","c","k","e","t">>

OrphanArn == <<"a","r","n",":","a","w","s",":","s","3",":",":",":","o","r","p","h","a","n","-","b","u","c","k","e","t">>

LambdaArn == <<"a","r","n",":","a","w","s",":","l","a","m","b","d","a",":","u","s","-","e","a","s","t","-","1",":","1",":","f","u","n","c","t","i","o","n",":","f","n","-","1">>

BucketId == <<"m","y","-","b","u","c","k","e","t">>

FnId == <<"f","n","-","1">>

\* the entries of a declared resource list: a resource with a bare id, a
\* resource with an id and outputs.arn, and a null entry
NullEntry == [null |-> TRUE, id |-> Undefined, arn |-> Undefined]

Entries ==
    { [null |-> FALSE, id |-> BucketId, arn |-> Undefined],
      [null |-> FALSE, id |-> FnId, arn |-> LambdaArn],
      NullEntry }

\* what readStateFile and the lookup of the resource list can give: a throw
\* (file missing, S3 error, JSON.parse), a value that is no array, or a list
DeclaredStates ==
    { [kind |-> "throws", resources |-> <<>>], [kind |-> "notArray", resources |-> <<>>] }
    \cup UNION { { [kind |-> "ok", resources |-> l] : l \in [1..n -> Entries] } : n \in 0..MaxDeclared }

NoDeclared == [kind |-> "none", resources |-> <<>>]

\* the observed resources of the tag query: one named by its Name tag, one
\* without tags, one whose Name tag has the empty value, one without an ARN
Observed ==
    { [ResourceARN |-> LambdaArn, Tags |-> <<[Key |-> "Name", Value |-> FnId]>>],
      [ResourceARN |-> BucketArn, Tags |-> <<>>],
      [ResourceARN |-> OrphanArn,
       Tags |-> <<[Key |-> "sst:app", Value |-> <<"a">>], [Key |-> "Name", Value |-> Undefined]>>],
      [ResourceARN |-> Undefined, Tags |-> <<[Key |-> "Name", Value |-> Undefined]>>] }

PageLists == UNION { [1..n -> Observed] : n \in 0..MaxObserved }

\* the values client.send can throw
NoError == [name |-> "", type |-> "", hasMessage |-> FALSE, message |-> <<>>]

Errors ==
    { [name |-> "ExpiredTokenException", type |-> "", hasMessage |-> TRUE,
       message |-> <<"T","o","k","e","n"," ","i","s"," ","e","x","p","i","r","e","d">>],
      [name |-> "Error", type |-> "ExpiredTokenException", hasMessage |-> TRUE,
       message |-> <<"b","a","d"," ","t","o","k","e","n">>],
      [name |-> "Error", type |-> "", hasMessage |-> TRUE,
       message |-> <<"s","e","s","s","i","o","n"," ","e","x","p","i","r","e","d">>],
      [name |-> "AccessDeniedException", type |-> "", hasMessage |-> TRUE,
       message |-> <<"A","c","c","e","s","s"," ","d","e","n","i","e","d">>],
      [name |-> "ExpiredTokenException", type |-> "", hasMessage |-> FALSE, message |-> <<>>],
      [name |-> "TimeoutError", type |-> "", hasMessage |-> FALSE, message |-> <<>>] }

EXPIRED == <<"e","x","p","i","r","e","d">>

CREDENTIAL_MESSAGE == <<"A","W","S"," ","C","r","e","d","e","n","t","i","a","l","s"," ","e","x","p","i","r","e","d"," ","o","r"," ","i","n","v","a","l","i","d","."," ","P","l","e","a","s","e"," ","c","h","e","c","k"," ","y","o","u","r"," ","e","n","v","i","r","o","n","m","e","n","t"," ","o","r"," ","r","u","n"," ","'","a","w","s"," ","s","s","o"," ","l","o","g","i","n","'",".">>

MISSING_PARAMS_MESSAGE == <<"M","i","s","s","i","n","g"," ","r","e","q","u","i","r","e","d"," ","p","a","r","a","m","s",":"," ","a","p","p","N","a","m","e",","," ","s","t","a","g","e",","," ","r","e","g","i","o","n">>

\* the request bodies: each parameter a string, "" when it is missing
Bodies == [appName : {"", "my-app", "*"}, stage : {"", "dev"}, region : {"", "us-east-1"}]

NoResponse ==
    [status |-> 0, error |-> <<>>, totalFound |-> 0, orphans |-> <<>>, managedCount |-> 0]

ErrorResponse(status, message) ==
    [status |-> status, error |-> message, totalFound |-> 0, orphans |-> <<>>, managedCount |-> 0]

\* resources.forEach of the inner try: the ids added before an entry throws
RECURSIVE extractIds(_, _, _)
extractIds(list, i, ids) ==
    IF i > Len(list) THEN [ids |-> ids, threw |-> FALSE]
    ELSE IF list[i].null THEN [ids |-> ids, threw |-> TRUE]
    ELSE extractIds(list, i + 1,
            (ids \cup (IF list[i].id # Undefined THEN {list[i].id} ELSE {}))
                 \cup (IF list[i].arn # Undefined THEN {list[i].arn} ELSE {}))

\* the inner try/catch: managedIds and whether the catch ran
loadManagedIds(d) ==
    IF d.kind = "ok" THEN extractIds(d.resources, 1, {})
    ELSE [ids |-> {}, threw |-> TRUE]

\* mutant: only the exact membership test, the suffix loop is missing
isOrphan_exactOnly(res, ids) == res.ResourceARN \notin ids

\* the predicate of awsResources.filter
isOrphan(res, ids) ==
    LET arn == res.ResourceARN
    IN  IF arn \in ids THEN FALSE
        ELSE ~\E id \in ids : EndsWith(arn, id)

\* Tags.reduce: the tag list as a mapping, a later tag replacing an earlier one
tagMap(tags) ==
    [k \in {tags[i].Key : i \in 1..Len(tags)} |->
        tags[CHOOSE i \in 1..Len(tags) :
                /\ tags[i].Key = k
                /\ \A j \in 1..Len(tags) : tags[j].Key = k => j <= i].Value]

\* the mapping of an observed resource to an orphan record
toOrphan(o) ==
    LET arn == o.ResourceARN
        colon == Split(arn, {":"})
        segs == Split(arn, {":", "/"})
        named == {i \in 1..Len(o.Tags) : o.Tags[i].Key = "Name"}
        nameTag == o.Tags[CHOOSE i \in named : \A j \in named : i <= j].Value
    IN  [arn |-> arn,
         type |-> IF arn # Undefined /\ Len(colon) >= 3 THEN colon[3] ELSE Undefined,
         tags |-> tagMap(o.Tags),
         name |-> IF named # {} /\ nameTag # Undefined THEN nameTag
                  ELSE IF arn = Undefined THEN Undefined
                  ELSE segs[Len(segs)]]

\* the orphan record of each observed resource the tag query can return
orphanOf == [o \in Observed |-> toOrphan(o)]

\* .map over the filtered resources
RECURSIVE mapOrphans(_)
mapOrphans(list) ==
    IF list = <<>> THEN <<>> ELSE <<orphanOf[Head(list)]>> \o mapOrphans(Tail(list))

\* mutant: the kept resources come out last first
RECURSIVE filterOrphans_reversed(_, _)
filterOrphans_reversed(list, ids) ==
    IF list = <<>> THEN <<>>
    ELSE filterOrphans_reversed(Tail(list), ids)
         \o (IF isOrphan(Head(list), ids) THEN <<Head(list)>> ELSE <<>>)

\* the filter over awsResources, in order
RECURSIVE filterOrphans(_, _)
filterOrphans(list, ids) ==
    IF list = <<>> THEN <<>>
    ELSE (IF isOrphan(Head(list), ids) THEN <<Head(list)>> ELSE <<>>)
         \o filterOrphans(Tail(list), ids)

\* the ScanResult of res.json
scanResult(observed, ids) ==
    [status |-> 200, error |-> <<>>,
     totalFound |-> Len(observed),
     orphans |-> mapOrphans(filterOrphans(observed, ids)),
     managedCount |-> Cardinality(ids)]

InitScan ==
    /\ scanPc = "idle"
    /\ declared = NoDeclared
    /\ warned = FALSE
    /\ managedIds = {}
    /\ awsResources = <<>>
    /\ token = 0
    /\ sent = 0
    /\ requests = <<>>
    /\ pages = <<>>
    /\ caught = NoError
    /\ response = NoResponse

\* a request arrives: the parameter check, then the handler's locals
ScanRequest(body) ==
    /\ scanPc \in {"idle", "done", "rejected"}
    /\ declared' = NoDeclared
    /\ warned' = FALSE
    /\ managedIds' = {}
    /\ awsResources' = <<>>
    /\ token' = 0
    /\ sent' = 0
    /\ requests' = <<>>
    /\ pages' = <<>>
    /\ caught' = NoError
    /\ IF body.appName = "" \/ body.stage = "" \/ body.region = ""
       THEN /\ response' = ErrorResponse(400, MISSING_PARAMS_MESSAGE)
            /\ scanPc' = "done"
       ELSE /\ response' = NoResponse
            /\ scanPc' = "loadState"
    /\ UNCHANGED <<varsTree, varsApp, varsRender, varsHunter, varsListen>>

\* await readStateFile and the extraction of the identities, in their try
LoadManagedIds(d) ==
    /\ scanPc = "loadState"
    /\ declared' = d
    /\ managedIds' = loadManagedIds(d).ids
    /\ warned' = loadManagedIds(d).threw
    /\ scanPc' = "query"
    /\ UNCHANGED <<awsResources, token, sent, requests, pages, caught, response>>
    /\ UNCHANGED <<varsTree, varsApp, varsRender, varsHunter, varsListen>>

\* mutant: the loop never goes round again
whileToken_never(tok) == FALSE

\* while (token): a PaginationToken that is absent or empty ends the loop
whileToken(tok) == tok # 0

\* the service's answer to the request numbered n: a fresh token when more
\* pages follow, none otherwise
PaginationToken(n, more) == IF more THEN n ELSE 0

\* one round of the loop: the request is sent with the handler's token, await
\* client.send answers with a page; without a token the loop ends and the
\* handler reconciles and responds
GetResourcesOk(page, more) ==
    LET tok == PaginationToken(sent + 1, more)
        concat == awsResources \o page
    IN  /\ scanPc = "query"
        /\ more => sent + 1 < MaxPages
        /\ Len(awsResources) + Len(page) <= MaxObserved
        /\ sent' = sent + 1
        /\ requests' = Append(requests, token)
        /\ pages' = Append(pages, [ResourceTagMappingList |-> page, PaginationToken |-> tok])
        /\ awsResources' = concat
        /\ token' = tok
        /\ IF whileToken(tok)
           THEN UNCHANGED <<scanPc, response>>
           ELSE /\ response' = scanResult(concat, managedIds)
                /\ scanPc' = "done"
        /\ UNCHANGED <<declared, warned, managedIds, caught>>
        /\ UNCHANGED <<varsTree, varsApp, varsRender, varsHunter, varsListen>>

\* mutant: only the name and __type of the error are looked at
catchMessage_byNameOnly(e) ==
    IF e.name = "ExpiredTokenException" \/ e.type = "ExpiredTokenException"
    THEN [threw |-> FALSE, message |-> CREDENTIAL_MESSAGE]
    ELSE [threw |-> FALSE, message |-> e.message]

\* the body of the outer catch up to its response: the message to send, or
\* the TypeError of message.includes when the caught value has no message
\* (the || reaches it only when name and __type are not ExpiredTokenException)
catchMessage(e) ==
    IF e.name = "ExpiredTokenException" \/ e.type = "ExpiredTokenException"
    THEN [threw |-> FALSE, message |-> CREDENTIAL_MESSAGE]
    ELSE IF ~e.hasMessage THEN [threw |-> TRUE, message |-> Undefined]
    ELSE [threw |-> FALSE,
          message |-> IF Includes(e.message, EXPIRED) THEN CREDENTIAL_MESSAGE ELSE e.message]

\* await client.send throws: the outer catch. A TypeError thrown inside the
\* catch rejects the promise of the async handler; Express 4 (the version
\* that accepts the "*" route of startServer) does not observe it, so no
\* response is sent.
GetResourcesThrows(e) ==
    /\ scanPc = "query"
    /\ sent' = sent + 1
    /\ requests' = Append(requests, token)
    /\ caught' = e
    /\ IF catchMessage(e).threw
       THEN /\ response' = NoResponse
            /\ scanPc' = "rejected"
       ELSE /\ response' = ErrorResponse(500, catchMessage(e).message)
            /\ scanPc' = "done"
    /\ UNCHANGED <<declared, warned, managedIds, awsResources, token, pages>>
    /\ UNCHANGED <<varsTree, varsApp, varsRender, varsHunter, varsListen>>

NextScan ==
    \/ \E body \in Bodies : ScanRequest(body)
    \/ \E d \in DeclaredStates : LoadManagedIds(d)
    \/ \E page \in PageLists, more \in BOOLEAN : GetResourcesOk(page, more)
    \/ \E e \in Errors : GetResourcesThrows(e)

----------------------------------------------------------------------------
(* App: the state files GET /api/state can answer with, and the metadata    *)
(* fetchState infers from them                                             *)

\* s.split(sep) for a separator string
RECURSIVE SplitOn(_, _)
SplitOn(s, sep) ==
    LET n == Len(sep)
        at == {i \in 1..(Len(s) - n + 1) : \A j \in 1..n : s[i + j - 1] = sep[j]}
        first == CHOOSE i \in at : \A j \in at : i <= j
    IN  IF at = {} THEN <<s>>
        ELSE <<SubSeq(s, 1, first - 1)>> \o SplitOn(SubSeq(s, first + n, Len(s)), sep)

UNKNOWN == <<"U","n","k","n","o","w","n">>

DEFAULT_REGION == <<"u","s","-","w","e","s","t","-","2">>

PROVIDER_TYPE == <<"p","u","l","u","m","i",":","p","r","o","v","i","d","e","r","s",":","a","w","s">>

LOAD_FAILED == <<"F","a","i","l","e","d"," ","t","o"," ","l","o","a","d"," ","s","t","a","t","e",".","j","s","o","n","."," ","C","h","e","c","k"," ","c","o","n","s","o","l","e"," ","f","o","r"," ","d","e","t","a","i","l","s",".">>

FILE_NOT_FOUND == <<"F","i","l","e"," ","n","o","t"," ","f","o","u","n","d">>

MyApp == <<"m","y","-","a","p","p">>

Dev == <<"d","e","v">>

\* the resources of a state file: the stack, a function with an ARN below
\* it, a resource whose URN has an empty project segment, and a provider
StackResource ==
    [urn |-> <<"u","r","n",":","p","u","l","u","m","i",":","d","e","v",":",":","m","y","-","a","p","p",":",":","p","u","l","u","m","i",":","p","u","l","u","m","i",":","S","t","a","c","k",":",":","s">>,
     parent |-> Undefined, type |-> STACK_MARKER, arn |-> Undefined, region |-> Undefined]

FnResource ==
    [urn |-> <<"u","r","n",":","p","u","l","u","m","i",":","d","e","v",":",":","m","y","-","a","p","p",":",":","t",":",":","f","n">>,
     parent |-> StackResource.urn, type |-> TypeBucket, arn |-> LambdaArn, region |-> Undefined]

NoProjectResource ==
    [urn |-> <<"u","r","n",":","p","u","l","u","m","i",":","d","e","v",":",":",":",":","t",":",":","x">>,
     parent |-> Undefined, type |-> TypeSubnet, arn |-> Undefined, region |-> Undefined]

ProviderResource ==
    [urn |-> <<"u","r","n",":","p","u","l","u","m","i",":","d","e","v",":",":","m","y","-","a","p","p",":",":","t",":",":","p">>,
     parent |-> Undefined, type |-> PROVIDER_TYPE, arn |-> Undefined,
     region |-> <<"e","u","-","w","e","s","t","-","1">>]

ResourceLists ==
    { <<>>, <<StackResource>>, <<StackResource, FnResource>>, <<NoProjectResource>>,
      <<StackResource, ProviderResource>> }

\* the stack identifier of a state file: absent, organisation/app/stage, the
\* same with an empty app segment, and a bare name
StackNames ==
    { Undefined, <<"o","r","g","/","m","y","-","a","p","p","/","d","e","v">>,
      <<"o","r","g","/","/","d","e","v">>, <<"s","o","l","o">> }

\* what JSON.parse of the state file can give: an object with a stack and a
\* resource list, or null
JsonNull == [null |-> TRUE, error |-> Undefined, stack |-> Undefined, resources |-> <<>>]

StateFiles ==
    { [null |-> FALSE, error |-> Undefined, stack |-> s, resources |-> l] :
        s \in StackNames, l \in ResourceLists } \cup {JsonNull}

\* the body of the 500 answer of GET /api/state
ErrorBody(message) == [null |-> FALSE, error |-> message, stack |-> Undefined, resources |-> <<>>]

\* what GET /api/config detected: nothing, or an app and a stage
NotDetected == [app |-> Undefined, stage |-> Undefined]

Detected == {NotDetected, [app |-> MyApp, stage |-> Dev]}

NoMetadata == [app |-> Undefined, stage |-> Undefined, region |-> Undefined, account |-> Undefined]

\* list.find(pred) || list[0] of the metadata inference
refResource(list) ==
    LET other == {i \in 1..Len(list) : list[i].type # STACK_MARKER}
    IN  IF other = {} THEN list[1] ELSE list[CHOOSE i \in other : \A j \in other : i <= j]

\* app and stage out of the stack identifier, else out of the URN of the
\* reference resource
inferAppStage(detected, stackName, list) ==
    LET app0 == IF detected.app # Undefined THEN detected.app ELSE UNKNOWN
        stage0 == IF detected.stage # Undefined THEN detected.stage ELSE UNKNOWN
        byStack == Split(stackName, {"/"})
        byUrn == SplitOn(refResource(list).urn, <<":", ":">>)
        urnHeader == Split(byUrn[1], {":"})
    IN  IF app0 # UNKNOWN /\ stage0 # UNKNOWN THEN [app |-> app0, stage |-> stage0]
        ELSE IF stackName # Undefined
        THEN IF Len(byStack) >= 3
             THEN [app |-> IF app0 = UNKNOWN THEN byStack[2] ELSE app0,
                   stage |-> IF stage0 = UNKNOWN THEN byStack[3] ELSE stage0]
             ELSE [app |-> IF app0 = UNKNOWN THEN stackName ELSE app0, stage |-> stage0]
        ELSE IF Len(list) > 0 /\ refResource(list).urn # Undefined /\ Len(byUrn) >= 3
        THEN [app |-> IF app0 = UNKNOWN THEN byUrn[2] ELSE app0,
              stage |-> IF Len(urnHeader) >= 3 /\ stage0 = UNKNOWN THEN urnHeader[3] ELSE stage0]
        ELSE [app |-> app0, stage |-> stage0]

\* the StateMetadata of setMetadata
inferMetadata(detected, data) ==
    LET list == data.resources
        providers == {i \in 1..Len(list) : list[i].type = PROVIDER_TYPE}
        provider == list[CHOOSE i \in providers : \A j \in providers : i <= j]
        withArn == {i \in 1..Len(list) : list[i].arn # Undefined}
        arnSample == IF withArn = {} THEN Undefined
                     ELSE list[CHOOSE i \in withArn : \A j \in withArn : i <= j].arn
        fields == Split(arnSample, {":"})
        found == inferAppStage(detected, data.stack, list)
    IN  [app |-> found.app,
         stage |-> found.stage,
         region |-> IF providers # {} /\ provider.region # Undefined THEN provider.region
                    ELSE DEFAULT_REGION,
         account |-> IF Len(fields) >= 5 /\ fields[5] # Undefined THEN fields[5] ELSE UNKNOWN]

\* no fetchState call has settled yet
NotHandled == [id |-> 0, by |-> "none", status |-> 0]

\* the useState initial values of App
InitApp ==
    /\ loading = TRUE
    /\ refreshing = FALSE
    /\ error = Undefined
    /\ metadata = NoMetadata
    /\ fetchCount = 0
    /\ fetches = {}
    /\ handled = NotHandled

----------------------------------------------------------------------------
(* safeRender: the values a caller can hand to it, and what it returns.    *)
(* A value is its typeof tag t, its text s (the characters of a string,    *)
(* the digits of a number, true or false for a boolean) and, for an        *)
(* object, its fields: a function from its keys to values.                 *)

CIPHERTEXT == <<"c","i","p","h","e","r","t","e","x","t">>

\* the key that marks a secret in a state file
SECRET_SIG ==
    <<"4","d","a","b","f","1","8","1","9","3","0","7","2","9","3","9","5","1","5","e",
      "2","2","a","d","b","2","9","8","3","8","8","d">>

NAME == <<"n","a","m","e">>

ENCRYPTED_SECRET ==
    <<"[","E","n","c","r","y","p","t","e","d"," ","S","e","c","r","e","t","]">>

\* the keys of the objects, in the order JSON.stringify lists them
KeyOrder == <<SECRET_SIG, CIPHERTEXT, NAME>>

Keys == {KeyOrder[i] : i \in DOMAIN KeyOrder}

\* the encrypted text a secret of the state file carries
Secret == <<"s","3","c","r","3","t">>

Str(s) == [t |-> "string", s |-> s, fields |-> <<>>]

Num(digits) == [t |-> "number", s |-> digits, fields |-> <<>>]

Bool(b) ==
    [t |-> "boolean",
     s |-> IF b THEN <<"t","r","u","e">> ELSE <<"f","a","l","s","e">>,
     fields |-> <<>>]

Null == [t |-> "null", s |-> <<>>, fields |-> <<>>]

UndefinedValue == [t |-> "undefined", s |-> <<>>, fields |-> <<>>]

Obj(f) == [t |-> "object", s |-> <<>>, fields |-> f]

\* the objects of at most MaxFields fields whose values are in V
ObjectsOver(V, maxFields) ==
    {Obj(f) : f \in UNION {[D -> V] : D \in {K \in SUBSET Keys : Cardinality(K) <= maxFields}}}

\* what a field of an object holds when it is not an object
FieldScalars == {Str(<<>>), Str(Secret), Null}

\* the values a field can hold: scalars, and objects nesting depth deep
RECURSIVE FieldValues(_, _)
FieldValues(depth, maxFields) ==
    IF depth = 0 THEN FieldScalars
    ELSE FieldScalars \cup ObjectsOver(FieldValues(depth - 1, maxFields), maxFields)

\* the values safeRender is called with: an output of a resource of the
\* state file, or undefined when the resource has no such output
RenderInputs(depth, maxFields) ==
    {Str(<<>>), Str(Secret), Num(<<"0">>), Num(<<"7">>), Null, UndefinedValue,
     Bool(TRUE), Bool(FALSE)}
        \cup ObjectsOver(FieldValues(depth - 1, maxFields), maxFields)

\* !!v
Truthy(v) ==
    CASE v.t = "string" -> v.s # <<>>
      [] v.t = "number" -> v.s # <<"0">>
      [] v.t = "boolean" -> v = Bool(TRUE)
      [] v.t = "object" -> TRUE
      [] OTHER -> FALSE

\* v[k] of an object v
Get(v, k) == IF k \in DOMAIN v.fields THEN v.fields[k] ELSE UndefinedValue

\* JSON.stringify(v), with no indentation
RECURSIVE stringify(_), members(_, _, _)
stringify(v) ==
    CASE v.t = "string" -> <<"\"">> \o v.s \o <<"\"">>
      [] v.t = "number" -> v.s
      [] v.t = "boolean" -> v.s
      [] v.t = "null" -> <<"n","u","l","l">>
      [] v.t = "object" -> <<"{">> \o members(v, KeyOrder, TRUE) \o <<"}">>
      [] OTHER -> <<>>

\* the "key":value members of the object v for the keys left to list, with
\* a comma before each but the first; a field holding undefined is left out
members(v, keys, first) ==
    IF keys = <<>> THEN <<>>
    ELSE IF Head(keys) \notin DOMAIN v.fields \/ v.fields[Head(keys)].t = "undefined"
         THEN members(v, Tail(keys), first)
         ELSE (IF first THEN <<>> ELSE <<",">>)
              \o <<"\"">> \o Head(keys) \o <<"\"">> \o <<":">>
              \o stringify(v.fields[Head(keys)])
              \o members(v, Tail(keys), FALSE)

safeRender(v) ==
    IF v.t = "string" THEN v.s
    ELSE IF v.t = "number" THEN v.s
    ELSE IF ~Truthy(v) THEN <<>>
    ELSE IF v.t = "object"
         THEN IF Truthy(Get(v, CIPHERTEXT)) \/ Truthy(Get(v, SECRET_SIG))
              THEN ENCRYPTED_SECRET
              ELSE stringify(v)
         ELSE v.s

\* safeRender has not been called
NotRendered == [done |-> FALSE, text |-> <<>>]

\* no value is being rendered
InitRender ==
    /\ value = UndefinedValue
    /\ rendered = NotRendered

----------------------------------------------------------------------------
(* getResourceId and getAwsConsoleLink: a resource is its id, its outputs  *)
(* (an object, or undefined), its urn and its type.                        *)

\* s.toLowerCase()
toLowerCase(s) ==
    [i \in 1..Len(s) |->
        IF \E k \in 1..Len(Upper) : Upper[k] = s[i]
        THEN Lower[CHOOSE k \in 1..Len(Upper) : Upper[k] = s[i]]
        ELSE s[i]]

\* the resources the two helpers are called with: ids and ARNs of every
\* shape the branches tell apart, an ARN cut short, a secret in place of an
\* output, and a resource without outputs
UtilResources ==
    LET ids == {UndefinedValue, Str(<<"b","1">>), Str(<<"N","/","A">>), Str(<<"a","r","n",":","a","w","s",":","l","a","m","b","d","a">>)}
        arns == {UndefinedValue, Str(<<"a","r","n",":","a","w","s",":","l","a","m","b","d","a",":","r",":","1",":","f","u","n","c","t","i","o","n",":","f">>), Str(<<"a","r","n",":","a","w","s",":","l","a","m","b","d","a",":","r",":","1">>),
                 Str(<<"a","r","n",":","a","w","s",":","s","3",":",":",":","b","1">>), Str(<<"a","r","n",":","a","w","s",":","s","3",":","b","1">>), Str(<<"a","r","n",":","a","w","s",":","x","y","z",":","r",":","1",":","t">>),
                 Str(<<"a","r","n",":","a","w","s",":","d","y","n","a","m","o","d","b",":","r",":","1",":","t","a","b","l","e","/","t","1">>), Str(<<"a","r","n",":","c","i","p","h","e","r","t","e","x","t",":","v","1">>),
                 Str(<<"a","r","n",":","a","w","s",":","e","c","2",":","r",":","1",":","v","p","c","/","v","p","c","-","1">>),
                 Str(<<"a","r","n",":","a","w","s",":","a","p","i","g","a","t","e","w","a","y",":","r",":",":","/","a","p","i","s","/","a","1","/","r","o","u","t","e","s","/","x">>),
                 Obj((CIPHERTEXT :> Str(Secret)))}
        names == {UndefinedValue, Str(<<"f","n">>), Obj((CIPHERTEXT :> Str(Secret)))}
        routeKeys == {UndefinedValue, Str(<<"G","E","T"," ","/">>)}
        regions == {UndefinedValue, Str(<<"e","u">>)}
        outputs == {UndefinedValue} \cup
            {Obj((<<"a","r","n">> :> a) @@ (NAME :> n) @@ (<<"r","o","u","t","e","K","e","y">> :> k) @@ (<<"r","e","g","i","o","n">> :> g)) :
                a \in arns, n \in names, k \in routeKeys, g \in regions}
    IN  [id : ids,
         outputs : outputs,
         urn : {<<"u","r","n",":","p","u","l","u","m","i",":","d","e","v",":",":","a","p","p",":",":","t",":",":","r","1">>, <<"u","r","n",":","p","u","l","u","m","i",":","d","e","v",":",":","a","p","p",":",":","t",":",":">>},
         type : {<<"a","w","s",":","s","3","/","b","u","c","k","e","t",":","B","u","c","k","e","t">>, <<"a","w","s",":","a","p","i","g","a","t","e","w","a","y","v","2","/","r","o","u","t","e",":","R","o","u","t","e">>}]

getResourceId(r) ==
    LET arn == Get(r.outputs, <<"a","r","n">>)
        name == Get(r.outputs, NAME)
        routeKey == Get(r.outputs, <<"r","o","u","t","e","K","e","y">>)
        NA == <<"N","/","A">>
        picked ==
            IF Truthy(r.id) /\ r.id.t = "string" THEN r.id.s
            ELSE IF Truthy(r.outputs)
                 THEN IF Truthy(arn) /\ arn.t = "string" /\ ~Includes(arn.s, CIPHERTEXT)
                      THEN IF SplitPop(arn.s, ":") # <<>> THEN SplitPop(arn.s, ":") ELSE arn.s
                      ELSE IF Truthy(name) THEN safeRender(name) ELSE NA
                 ELSE NA
        parts == SplitOn(r.urn, <<":",":">>)
        baseId ==
            IF picked = NA
            THEN IF parts[Len(parts)] # <<>> THEN parts[Len(parts)] ELSE NA
            ELSE picked
    IN  IF /\ Includes(r.type, <<"a","p","i","g","a","t","e","w","a","y">>)
           /\ Includes(toLowerCase(r.type), <<"r","o","u","t","e">>)
           /\ Truthy(routeKey)
        THEN baseId \o <<" ",":"," ">> \o routeKey.s
        ELSE baseId

\* encodeURIComponent(s), for the characters an ARN is made of
RECURSIVE encodeURIComponent(_)
encodeURIComponent(s) ==
    IF s = <<>> THEN <<>>
    ELSE (CASE Head(s) = "/" -> <<"%","2","F">>
            [] Head(s) = ":" -> <<"%","3","A">>
            [] Head(s) = " " -> <<"%","2","0">>
            [] OTHER -> <<Head(s)>>) \o encodeURIComponent(Tail(s))

\* the console link of resource r, <<>> for null; an undefined value put in
\* a template literal gives the text "undefined"
getAwsConsoleLink(r) ==
    LET arn0 == IF Truthy(Get(r.outputs, <<"a","r","n">>)) THEN Get(r.outputs, <<"a","r","n">>)
                ELSE IF Truthy(r.id) THEN r.id ELSE Str(<<>>)
        arn == arn0.s
        type == toLowerCase(r.type)
        region == IF Truthy(Get(r.outputs, <<"r","e","g","i","o","n">>)) THEN Get(r.outputs, <<"r","e","g","i","o","n">>).s
                  ELSE DEFAULT_REGION
        parts == SplitOn(arn, <<":">>)
        service == parts[3]
        \* a[i] of a JavaScript array, from 0
        nth(a, i) == IF i + 1 <= Len(a) THEN Str(a[i + 1]) ELSE UndefinedValue
        part(i) == nth(parts, i)
        tpl(x) == IF x.t = "undefined" THEN <<"u","n","d","e","f","i","n","e","d">> ELSE x.s
        \* parts[5]?.split("/")[1] || parts[5]
        name5 == IF part(5).t = "undefined" THEN UndefinedValue
                 ELSE IF Truthy(nth(SplitOn(parts[6], <<"/">>), 1))
                      THEN nth(SplitOn(parts[6], <<"/">>), 1) ELSE part(5)
        \* parts[5]?.split("/").slice(1).join("/") || parts[5]
        role5 == IF part(5).t = "undefined" THEN UndefinedValue
                 ELSE IF Len(SplitOn(parts[6], <<"/">>)) > 1
                         /\ Len(parts[6]) > Len(SplitOn(parts[6], <<"/">>)[1]) + 1
                      THEN Str(SubSeq(parts[6], Len(SplitOn(parts[6], <<"/">>)[1]) + 2, Len(parts[6])))
                      ELSE part(5)
    IN  IF arn0.t = "string" /\ Len(arn) >= 8 /\ SubSeq(arn, 1, 8) = <<"a","r","n",":","a","w","s",":">>
        THEN
            CASE service = <<"l","a","m","b","d","a">> -> (
                    <<"h","t","t","p","s",":","/","/">> \o region \o <<".","c","o","n","s","o","l","e",".","a","w","s",".","a","m","a","z","o","n",".","c","o","m","/","l","a","m","b","d","a","/","h","o","m","e","?","r","e","g","i","o","n","=">> \o region \o <<"#","/","f","u","n","c","t","i","o","n","s","/">> \o tpl(part(6)) \o <<"?","t","a","b","=","c","o","d","e">>)
              [] service = <<"s","3">> -> (
                    <<"h","t","t","p","s",":","/","/","s","3",".","c","o","n","s","o","l","e",".","a","w","s",".","a","m","a","z","o","n",".","c","o","m","/","s","3","/","b","u","c","k","e","t","s","/">> \o tpl(nth(SplitOn(arn, <<":",":",":">>), 1)) \o <<"?","r","e","g","i","o","n","=">> \o region)
              [] service = <<"d","y","n","a","m","o","d","b">> -> (
                    <<"h","t","t","p","s",":","/","/">> \o region \o <<".","c","o","n","s","o","l","e",".","a","w","s",".","a","m","a","z","o","n",".","c","o","m","/","d","y","n","a","m","o","d","b","v","2","/","h","o","m","e","?","r","e","g","i","o","n","=">> \o region \o <<"#","t","a","b","l","e","?","n","a","m","e","=">> \o tpl(name5))
              [] service = <<"s","q","s">> -> (
                    IF Truthy(Get(r.outputs, <<"u","r","l">>)) THEN Get(r.outputs, <<"u","r","l">>).s
                    ELSE <<"h","t","t","p","s",":","/","/">> \o region \o <<".","c","o","n","s","o","l","e",".","a","w","s",".","a","m","a","z","o","n",".","c","o","m","/","s","q","s","/","v","2","/","h","o","m","e","?","r","e","g","i","o","n","=">> \o region \o <<"#","/","q","u","e","u","e","s">>)
              [] service = <<"s","n","s">> -> (
                    <<"h","t","t","p","s",":","/","/">> \o region \o <<".","c","o","n","s","o","l","e",".","a","w","s",".","a","m","a","z","o","n",".","c","o","m","/","s","n","s","/","v","3","/","h","o","m","e","?","r","e","g","i","o","n","=">> \o region \o <<"#","/","t","o","p","i","c","s","/">> \o arn)
              [] service = <<"r","d","s">> -> (
                    <<"h","t","t","p","s",":","/","/">> \o region \o <<".","c","o","n","s","o","l","e",".","a","w","s",".","a","m","a","z","o","n",".","c","o","m","/","r","d","s","/","h","o","m","e","?","r","e","g","i","o","n","=">> \o region \o <<"#","d","a","t","a","b","a","s","e",":","i","d","=">> \o parts[Len(parts)] \o <<";","i","s","-","c","l","u","s","t","e","r","=","t","r","u","e">>)
              [] service = <<"s","t","a","t","e","s">> -> (
                    <<"h","t","t","p","s",":","/","/">> \o region \o <<".","c","o","n","s","o","l","e",".","a","w","s",".","a","m","a","z","o","n",".","c","o","m","/","s","t","a","t","e","s","/","h","o","m","e","?","r","e","g","i","o","n","=">> \o region \o <<"#","/","s","t","a","t","e","m","a","c","h","i","n","e","s","/","v","i","e","w","/">> \o arn)
              [] service = <<"l","o","g","s">> -> (
                    <<"h","t","t","p","s",":","/","/">> \o region \o <<".","c","o","n","s","o","l","e",".","a","w","s",".","a","m","a","z","o","n",".","c","o","m","/","c","l","o","u","d","w","a","t","c","h","/","h","o","m","e","?","r","e","g","i","o","n","=">> \o region \o <<"#","l","o","g","s","V","2",":","l","o","g","-","g","r","o","u","p","s","/","l","o","g","-","g","r","o","u","p","/">> \o encodeURIComponent(tpl(part(6))))
              [] service = <<"a","p","i","g","a","t","e","w","a","y">> -> (
                    IF Includes(arn, <<"/","a","p","i","s","/">>)
                    THEN <<"h","t","t","p","s",":","/","/">> \o region \o <<".","c","o","n","s","o","l","e",".","a","w","s",".","a","m","a","z","o","n",".","c","o","m","/","a","p","i","g","a","t","e","w","a","y","/","h","o","m","e","?","r","e","g","i","o","n","=">> \o region \o <<"#","/","a","p","i","s","/">> \o SplitOn(SplitOn(arn, <<"/","a","p","i","s","/">>)[2], <<"/">>)[1] \o <<"/","d","a","s","h","b","o","a","r","d">>
                    ELSE
                    IF Includes(arn, <<"/","r","e","s","t","a","p","i","s","/">>)
                    THEN <<"h","t","t","p","s",":","/","/">> \o region \o <<".","c","o","n","s","o","l","e",".","a","w","s",".","a","m","a","z","o","n",".","c","o","m","/","a","p","i","g","a","t","e","w","a","y","/","h","o","m","e","?","r","e","g","i","o","n","=">> \o region \o <<"#","/","a","p","i","s","/">> \o SplitOn(SplitOn(arn, <<"/","r","e","s","t","a","p","i","s","/">>)[2], <<"/">>)[1] \o <<"/","r","e","s","o","u","r","c","e","s">>
                    ELSE
                    IF Includes(arn, <<"/","d","o","m","a","i","n","n","a","m","e","s","/">>)
                    THEN <<"h","t","t","p","s",":","/","/">> \o region \o <<".","c","o","n","s","o","l","e",".","a","w","s",".","a","m","a","z","o","n",".","c","o","m","/","a","p","i","g","a","t","e","w","a","y","/","h","o","m","e","?","r","e","g","i","o","n","=">> \o region \o <<"#","/","d","o","m","a","i","n","-","n","a","m","e","s","/">> \o SplitOn(SplitOn(arn, <<"/","d","o","m","a","i","n","n","a","m","e","s","/">>)[2], <<"/">>)[1]
                    ELSE
                    IF Includes(arn, <<"/","v","p","c","l","i","n","k","s","/">>)
                    THEN <<"h","t","t","p","s",":","/","/">> \o region \o <<".","c","o","n","s","o","l","e",".","a","w","s",".","a","m","a","z","o","n",".","c","o","m","/","a","p","i","g","a","t","e","w","a","y","/","h","o","m","e","?","r","e","g","i","o","n","=">> \o region \o <<"#","/","v","p","c","-","l","i","n","k","s","/">> \o SplitOn(SplitOn(arn, <<"/","v","p","c","l","i","n","k","s","/">>)[2], <<"/">>)[1]
                    ELSE
                    IF Includes(arn, <<"/","u","s","a","g","e","p","l","a","n","s","/">>)
                    THEN <<"h","t","t","p","s",":","/","/">> \o region \o <<".","c","o","n","s","o","l","e",".","a","w","s",".","a","m","a","z","o","n",".","c","o","m","/","a","p","i","g","a","t","e","w","a","y","/","h","o","m","e","?","r","e","g","i","o","n","=">> \o region \o <<"#","/","u","s","a","g","e","-","p","l","a","n","s","/">> \o SplitOn(SplitOn(arn, <<"/","u","s","a","g","e","p","l","a","n","s","/">>)[2], <<"/">>)[1]
                    ELSE
                    IF Includes(arn, <<"/","a","p","i","k","e","y","s","/">>)
                    THEN <<"h","t","t","p","s",":","/","/">> \o region \o <<".","c","o","n","s","o","l","e",".","a","w","s",".","a","m","a","z","o","n",".","c","o","m","/","a","p","i","g","a","t","e","w","a","y","/","h","o","m","e","?","r","e","g","i","o","n","=">> \o region \o <<"#","/","a","p","i","-","k","e","y","s","/">> \o SplitOn(SplitOn(arn, <<"/","a","p","i","k","e","y","s","/">>)[2], <<"/">>)[1]
                    ELSE
                    Undefined)
              [] service = <<"i","a","m">> -> (
                    <<"h","t","t","p","s",":","/","/","c","o","n","s","o","l","e",".","a","w","s",".","a","m","a","z","o","n",".","c","o","m","/","i","a","m","/","h","o","m","e","?","#","/","r","o","l","e","s","/","d","e","t","a","i","l","s","/">> \o tpl(role5))
              [] service = <<"e","v","e","n","t","s">> -> (
                    <<"h","t","t","p","s",":","/","/">> \o region \o <<".","c","o","n","s","o","l","e",".","a","w","s",".","a","m","a","z","o","n",".","c","o","m","/","e","v","e","n","t","s","/","h","o","m","e","?","r","e","g","i","o","n","=">> \o region \o <<"#","/","r","u","l","e","s","/">> \o tpl(name5))
              [] service = <<"c","o","g","n","i","t","o","-","i","d","p">> -> (
                    <<"h","t","t","p","s",":","/","/">> \o region \o <<".","c","o","n","s","o","l","e",".","a","w","s",".","a","m","a","z","o","n",".","c","o","m","/","c","o","g","n","i","t","o","/","v","2","/","i","d","p","/","u","s","e","r","-","p","o","o","l","s","/">> \o tpl(name5) \o <<"/","i","n","f","o","?","r","e","g","i","o","n","=">> \o region)
              [] service = <<"s","e","c","r","e","t","s","m","a","n","a","g","e","r">> -> (
                    <<"h","t","t","p","s",":","/","/">> \o region \o <<".","c","o","n","s","o","l","e",".","a","w","s",".","a","m","a","z","o","n",".","c","o","m","/","s","e","c","r","e","t","s","m","a","n","a","g","e","r","/","h","o","m","e","?","r","e","g","i","o","n","=">> \o region \o <<"#","!","/","s","e","c","r","e","t","?","n","a","m","e","=">> \o encodeURIComponent(tpl(part(6))))
              [] service = <<"a","c","m">> -> (
                    <<"h","t","t","p","s",":","/","/">> \o region \o <<".","c","o","n","s","o","l","e",".","a","w","s",".","a","m","a","z","o","n",".","c","o","m","/","a","c","m","/","h","o","m","e","?","r","e","g","i","o","n","=">> \o region \o <<"#","/","?","u","u","i","d","=">> \o tpl(name5))
              [] service = <<"c","l","o","u","d","f","r","o","n","t">> -> (
                    <<"h","t","t","p","s",":","/","/","c","o","n","s","o","l","e",".","a","w","s",".","a","m","a","z","o","n",".","c","o","m","/","c","l","o","u","d","f","r","o","n","t","/","v","3","/","h","o","m","e","?","#","/","d","i","s","t","r","i","b","u","t","i","o","n","s","/">> \o tpl(name5))
              [] service = <<"a","p","p","s","y","n","c">> -> (
                    <<"h","t","t","p","s",":","/","/">> \o region \o <<".","c","o","n","s","o","l","e",".","a","w","s",".","a","m","a","z","o","n",".","c","o","m","/","a","p","p","s","y","n","c","/","h","o","m","e","?","r","e","g","i","o","n","=">> \o region \o <<"#","/","a","p","i","s","/">> \o tpl(part(5)) \o <<"/","s","c","h","e","m","a">>)
              [] service = <<"k","i","n","e","s","i","s">> -> (
                    <<"h","t","t","p","s",":","/","/">> \o region \o <<".","c","o","n","s","o","l","e",".","a","w","s",".","a","m","a","z","o","n",".","c","o","m","/","k","i","n","e","s","i","s","/","h","o","m","e","?","r","e","g","i","o","n","=">> \o region \o <<"#","/","s","t","r","e","a","m","s","/","d","e","t","a","i","l","s","/">> \o tpl(name5) \o <<"/","m","o","n","i","t","o","r","i","n","g">>)
              [] service = <<"e","c","2">> -> (
                    IF Includes(arn, <<"/","v","p","c","-">>)
                    THEN <<"h","t","t","p","s",":","/","/">> \o region \o <<".","c","o","n","s","o","l","e",".","a","w","s",".","a","m","a","z","o","n",".","c","o","m","/","v","p","c","/","h","o","m","e","?","r","e","g","i","o","n","=">> \o region \o <<"#","V","p","c","D","e","t","a","i","l","s",":","V","p","c","I","d","=">> \o SplitOn(arn, <<"/">>)[2]
                    ELSE
                    IF Includes(arn, <<"/","s","u","b","n","e","t","-">>)
                    THEN <<"h","t","t","p","s",":","/","/">> \o region \o <<".","c","o","n","s","o","l","e",".","a","w","s",".","a","m","a","z","o","n",".","c","o","m","/","v","p","c","/","h","o","m","e","?","r","e","g","i","o","n","=">> \o region \o <<"#","S","u","b","n","e","t","D","e","t","a","i","l","s",":","S","u","b","n","e","t","I","d","=">> \o SplitOn(arn, <<"/">>)[2]
                    ELSE
                    IF Includes(arn, <<"/","i","g","w","-">>)
                    THEN <<"h","t","t","p","s",":","/","/">> \o region \o <<".","c","o","n","s","o","l","e",".","a","w","s",".","a","m","a","z","o","n",".","c","o","m","/","v","p","c","/","h","o","m","e","?","r","e","g","i","o","n","=">> \o region \o <<"#","I","n","t","e","r","n","e","t","G","a","t","e","w","a","y",":","i","n","t","e","r","n","e","t","G","a","t","e","w","a","y","I","d","=">> \o SplitOn(arn, <<"/">>)[2]
                    ELSE
                    IF Includes(arn, <<"/","s","g","-">>)
                    THEN <<"h","t","t","p","s",":","/","/">> \o region \o <<".","c","o","n","s","o","l","e",".","a","w","s",".","a","m","a","z","o","n",".","c","o","m","/","e","c","2","/","v","2","/","h","o","m","e","?","r","e","g","i","o","n","=">> \o region \o <<"#","S","e","c","u","r","i","t","y","G","r","o","u","p",":","g","r","o","u","p","I","d","=">> \o SplitOn(arn, <<"/">>)[2]
                    ELSE
                    IF Includes(arn, <<"/","r","t","b","-">>)
                    THEN <<"h","t","t","p","s",":","/","/">> \o region \o <<".","c","o","n","s","o","l","e",".","a","w","s",".","a","m","a","z","o","n",".","c","o","m","/","v","p","c","/","h","o","m","e","?","r","e","g","i","o","n","=">> \o region \o <<"#","R","o","u","t","e","T","a","b","l","e","D","e","t","a","i","l","s",":","R","o","u","t","e","T","a","b","l","e","I","d","=">> \o SplitOn(arn, <<"/">>)[2]
                    ELSE
                    IF Includes(arn, <<"/","n","a","t","-">>)
                    THEN <<"h","t","t","p","s",":","/","/">> \o region \o <<".","c","o","n","s","o","l","e",".","a","w","s",".","a","m","a","z","o","n",".","c","o","m","/","v","p","c","/","h","o","m","e","?","r","e","g","i","o","n","=">> \o region \o <<"#","N","a","t","G","a","t","e","w","a","y","D","e","t","a","i","l","s",":","N","a","t","G","a","t","e","w","a","y","I","d","=">> \o SplitOn(arn, <<"/">>)[2]
                    ELSE
                    IF Includes(arn, <<"/","e","n","i","-">>)
                    THEN <<"h","t","t","p","s",":","/","/">> \o region \o <<".","c","o","n","s","o","l","e",".","a","w","s",".","a","m","a","z","o","n",".","c","o","m","/","e","c","2","/","v","2","/","h","o","m","e","?","r","e","g","i","o","n","=">> \o region \o <<"#","N","i","c",":","n","e","t","w","o","r","k","I","n","t","e","r","f","a","c","e","I","d","=">> \o SplitOn(arn, <<"/">>)[2]
                    ELSE
                    <<"h","t","t","p","s",":","/","/">> \o region \o <<".","c","o","n","s","o","l","e",".","a","w","s",".","a","m","a","z","o","n",".","c","o","m","/","e","c","2","/","v","2","/","h","o","m","e","?","r","e","g","i","o","n","=">> \o region)
              [] OTHER -> <<"h","t","t","p","s",":","/","/">> \o region \o <<".","c","o","n","s","o","l","e",".","a","w","s",".","a","m","a","z","o","n",".","c","o","m","/","c","o","n","s","o","l","e","/","h","o","m","e","?","r","e","g","i","o","n","=">> \o region
        ELSE IF arn0.t = "string" /\ arn # <<>>
        THEN IF Includes(type, <<"s","3","/","b","u","c","k","e","t">>)
             THEN <<"h","t","t","p","s",":","/","/","s","3",".","c","o","n","s","o","l","e",".","a","w","s",".","a","m","a","z","o","n",".","c","o","m","/","s","3","/","b","u","c","k","e","t","s","/">> \o arn \o <<"?","r","e","g","i","o","n","=">> \o region
             ELSE IF Includes(type, <<"l","a","m","b","d","a","/","f","u","n","c","t","i","o","n">>)
             THEN <<"h","t","t","p","s",":","/","/">> \o region \o <<".","c","o","n","s","o","l","e",".","a","w","s",".","a","m","a","z","o","n",".","c","o","m","/","l","a","m","b","d","a","/","h","o","m","e","?","r","e","g","i","o","n","=">> \o region \o <<"#","/","f","u","n","c","t","i","o","n","s","/">> \o arn
             ELSE IF Includes(type, <<"d","y","n","a","m","o","d","b","/","t","a","b","l","e">>)
             THEN <<"h","t","t","p","s",":","/","/">> \o region \o <<".","c","o","n","s","o","l","e",".","a","w","s",".","a","m","a","z","o","n",".","c","o","m","/","d","y","n","a","m","o","d","b","v","2","/","h","o","m","e","?","r","e","g","i","o","n","=">> \o region \o <<"#","t","a","b","l","e","?","n","a","m","e","=">> \o arn
             ELSE Undefined
        ELSE Undefined

----------------------------------------------------------------------------
(* App and GhostHunter: the tabs, the details panel and the hunter's state, *)
(* which App keeps while GhostHunter is not mounted.  null is Null.         *)

\* GhostHunter is rendered: App shows no spinner and no error, and the tab is
\* the hunter's
HunterMounted == ~loading /\ error = Undefined /\ activeTab = "hunter"

\* the configuration the prefill effect sets from the metadata
prefilled(md, config) ==
    [appName |-> IF md.app # UNKNOWN THEN md.app ELSE config.appName,
     stage |-> IF md.stage # UNKNOWN THEN md.stage ELSE config.stage,
     region |-> IF md.region # UNKNOWN THEN md.region ELSE config.region]

\* the prefill effect of GhostHunter after a render: it runs when GhostHunter
\* mounts, and while mounted when metadata, result or scanning changed
PrefillEffect(changed) ==
    hunterConfig' =
        IF /\ ~loading' /\ error' = Undefined /\ activeTab' = "hunter"
           /\ ~HunterMounted \/ changed
           /\ metadata' # NoMetadata /\ hunterResult' = Null /\ ~hunterScanning'
        THEN prefilled(metadata', hunterConfig)
        ELSE hunterConfig

\* a sync effect that clears a vanished selection but keeps the old object of
\* one that is still listed
syncSelected_keepStale(list, version) ==
    IF selectedResource = Null THEN Null
    ELSE IF \E i \in 1..Len(list) : list[i].urn = selectedResource.urn
    THEN selectedResource
    ELSE Null

\* the selection after the sync effect that follows setResources(list), the
\* list of fetchState call version
syncSelected(list, version) ==
    IF selectedResource = Null THEN Null
    ELSE IF \E i \in 1..Len(list) : list[i].urn = selectedResource.urn
    THEN [urn |-> selectedResource.urn, version |-> version]
    ELSE Null

\* the useState initial values of App for the tabs and the hunter, and the
\* GET /api/config of the mount effect on its way
InitHunter ==
    /\ activeTab = "explorer"
    /\ selectedResource = Null
    /\ listVersion = 0
    /\ hunterResult = Null
    /\ hunterScanning = FALSE
    /\ hunterError = Undefined
    /\ hunterConfig =
          [appName |-> <<>>, stage |-> <<>>, region |-> <<"u","s","-","e","a","s","t","-","1">>]
    /\ edited = [appName |-> Undefined, stage |-> Undefined, region |-> Undefined]
    /\ scanReq = Null
    /\ configPc = "pending"
    /\ posted = 0
    /\ saved = 0

\* the server listens on the requested port; ports are counted from it
Listening ==
    /\ portStatus = [p \in 0..MaxRetries |-> "free"]
    /\ port = 0
    /\ listenPc = "listening"
    /\ listening = {0}

----------------------------------------------------------------------------
(* The explorer: treeGroups is the memo of buildTree over resources,       *)
(* matchedUrns and viewMode, recomputed in the render that follows a       *)
(* change of any of them.                                                  *)

\* the locals and the result of a buildTree call, after the call
Install(t) ==
    /\ nodeMap' = t.nodeMap
    /\ roots' = t.roots
    /\ calls' = t.calls
    /\ overflow' = t.overflow
    /\ treeGroups' = t.groups

\* the same for the first render
Installed(t) ==
    /\ nodeMap = t.nodeMap
    /\ roots = t.roots
    /\ calls = t.calls
    /\ overflow = t.overflow
    /\ treeGroups = t.groups

\* the render's useMemo: buildTree unless the view is the flat list
Render(mode) ==
    IF mode = "list"
    THEN /\ treeGroups' = <<>>
         /\ nodeMap' = <<>>
         /\ roots' = <<>>
         /\ calls' = <<>>
         /\ overflow' = FALSE
    ELSE Install(buildTree(resources, matchedUrns, mode))

InitTree ==
    /\ resources \in Snapshots(MaxRes)
    /\ matchedUrns \in SUBSET UrnsOf(resources)
    /\ viewMode = "categorized"
    /\ Installed(buildTree(resources, matchedUrns, "categorized"))
    /\ InitScan
    /\ InitApp
    /\ InitHunter
    /\ Listening
    /\ InitRender

\* a click on one of the three view buttons
SetViewMode(m) ==
    /\ m # viewMode
    /\ viewMode' = m
    /\ UNCHANGED <<resources, matchedUrns>>
    /\ Render(m)
    /\ UNCHANGED <<varsScan, varsApp, varsRender, varsHunter, varsListen>>

NextTree == \E m \in {"list", "tree", "categorized"} : SetViewMode(m)

SpecTree == InitTree /\ [][NextTree]_vars

\* the server, with the explorer showing an empty snapshot
InitServer ==
    /\ InitScan
    /\ InitApp
    /\ InitHunter
    /\ Listening
    /\ InitRender
    /\ resources = <<>>
    /\ matchedUrns = {}
    /\ viewMode = "categorized"
    /\ nodeMap = <<>>
    /\ roots = <<>>
    /\ treeGroups = <<>>
    /\ calls = <<>>
    /\ overflow = FALSE

SpecScan == InitServer /\ [][NextScan]_vars

\* await client.send settles: the service answers the request, or the call
\* throws
ServiceAnswers ==
    \/ \E page \in PageLists, more \in BOOLEAN : GetResourcesOk(page, more)
    \/ \E e \in Errors : GetResourcesThrows(e)

\* the scan with a tag query whose every request is answered in the end
SpecScanLive == SpecScan /\ WF_vars(ServiceAnswers)

----------------------------------------------------------------------------
(* App: fetchState, with GET /api/state at the other end *)

\* the bodies res.json() of the client can give
StateBodies == StateFiles \cup {ErrorBody(FILE_NOT_FOUND)}

\* the metadata of every body under every detection
metadataOf == [d \in Detected |-> [data \in StateBodies |-> inferMetadata(d, data)]]

\* what the explorer builds of every resource list in its two tree views,
\* its filters at their defaults: every resource matches
explorerTree ==
    [m \in {"tree", "categorized"} |-> [l \in ResourceLists |-> buildTree(l, UrnsOf(l), m)]]

\* setResources(list), and the render of the explorer that follows it
SetResources(list) ==
    /\ resources' = list
    /\ matchedUrns' = UrnsOf(list)
    /\ UNCHANGED viewMode
    /\ IF viewMode = "list"
       THEN /\ treeGroups' = <<>>
            /\ nodeMap' = <<>>
            /\ roots' = <<>>
            /\ calls' = <<>>
            /\ overflow' = FALSE
       ELSE Install(explorerTree[viewMode][list])

\* the fetchState call numbered id, while its promise chain has not settled
InFlight(id) == \E f \in fetches : f.id = id

fetchOf(id) == CHOOSE f \in fetches : f.id = id

\* a call of fetchState: by the mount effect and handleUpdateConfig with what
\* /api/config detected, by the refresh button and the interval in the
\* background
fetchState(detected, background) ==
    /\ fetchCount < MaxFetches
    /\ fetchCount' = fetchCount + 1
    /\ loading' = IF background THEN loading ELSE TRUE
    /\ refreshing' = TRUE
    /\ fetches' = fetches \cup
          {[id |-> fetchCount + 1, detected |-> detected, background |-> background,
            answered |-> FALSE, status |-> 0, body |-> JsonNull]}
    /\ UNCHANGED <<error, metadata, handled>>

\* a call of fetchState with nothing else in the handler that makes it
FetchState(detected, background) ==
    /\ fetchState(detected, background)
    /\ UNCHANGED <<varsTree, varsScan, varsRender, varsHunter, varsListen>>

\* GET /api/state: the state file as JSON, or status 500 with {error} when
\* readStateFile throws
GetState(id, threw, data) ==
    /\ InFlight(id)
    /\ ~fetchOf(id).answered
    /\ fetches' = (fetches \ {fetchOf(id)}) \cup
          {IF threw
           THEN [fetchOf(id) EXCEPT !.answered = TRUE, !.status = 500,
                                    !.body = ErrorBody(FILE_NOT_FOUND)]
           ELSE [fetchOf(id) EXCEPT !.answered = TRUE, !.status = 200, !.body = data]}
    /\ UNCHANGED <<loading, refreshing, error, metadata, fetchCount, handled>>
    /\ UNCHANGED <<varsTree, varsScan, varsRender, varsHunter, varsListen>>

\* the .catch of fetchState
Catch(f) ==
    /\ error' = LOAD_FAILED
    /\ loading' = IF f.background THEN loading ELSE FALSE
    /\ refreshing' = FALSE
    /\ handled' = [id |-> f.id, by |-> "catch", status |-> f.status]
    /\ UNCHANGED metadata
    /\ UNCHANGED varsTree
    /\ UNCHANGED varsHunter

\* the .then of fetchState on the parsed body; reading data.latest of null
\* throws, which the .catch receives
Then(f) ==
    IF f.body.null THEN Catch(f)
    ELSE /\ SetResources(f.body.resources)
         /\ metadata' = metadataOf[f.detected][f.body]
         /\ loading' = IF f.background THEN loading ELSE FALSE
         /\ refreshing' = FALSE
         /\ error' = Undefined
         /\ handled' = [id |-> f.id, by |-> "then", status |-> f.status]
         /\ selectedResource' = syncSelected(f.body.resources, f.id)
         /\ listVersion' = f.id
         /\ UNCHANGED <<activeTab, hunterResult, hunterScanning, hunterError, edited, scanReq,
                        configPc, posted, saved>>
         /\ PrefillEffect(TRUE)

\* the response of a fetch arrives: res.json(), then the handlers
StateResolved(id) ==
    /\ InFlight(id)
    /\ fetchOf(id).answered
    /\ fetches' = fetches \ {fetchOf(id)}
    /\ Then(fetchOf(id))
    /\ UNCHANGED fetchCount
    /\ UNCHANGED <<varsScan, varsRender, varsListen>>

\* the fetch rejects: the server cannot be reached
StateRejected(id) ==
    /\ InFlight(id)
    /\ ~fetchOf(id).answered
    /\ fetches' = fetches \ {fetchOf(id)}
    /\ Catch(fetchOf(id))
    /\ UNCHANGED fetchCount
    /\ UNCHANGED <<varsScan, varsRender, varsListen>>

NextApp ==
    \/ \E d \in Detected, background \in BOOLEAN : FetchState(d, background)
    \/ \E id \in 1..MaxFetches, threw \in BOOLEAN, data \in StateFiles :
          GetState(id, threw, data)
    \/ \E id \in 1..MaxFetches : StateResolved(id)
    \/ \E id \in 1..MaxFetches : StateRejected(id)

SpecApp == InitServer /\ [][NextApp]_vars

----------------------------------------------------------------------------
(* App and GhostHunter: what the user and the pending requests do *)

\* a tab button that also drops the scan result
SetActiveTab_clearing(tab) ==
    /\ activeTab' = tab
    /\ selectedResource' = Null
    /\ hunterResult' = Null
    /\ UNCHANGED <<listVersion, hunterScanning, hunterError, edited, scanReq,
                   configPc, posted, saved>>
    /\ UNCHANGED <<varsTree, varsScan, varsApp, varsRender, varsListen>>
    /\ PrefillEffect(FALSE)

\* a click on the Explorer or the Hunter tab button
SetActiveTab(tab) ==
    /\ activeTab' = tab
    /\ selectedResource' = Null
    /\ UNCHANGED <<listVersion, hunterResult, hunterScanning, hunterError, edited, scanReq,
                   configPc, posted, saved>>
    /\ UNCHANGED <<varsTree, varsScan, varsApp, varsRender, varsListen>>
    /\ PrefillEffect(FALSE)

\* onSelect and onClose: a click on a row of the explorer, on an orphan row
\* of the hunter, or on the close button of the details panel
SetSelectedResource(r) ==
    /\ \/ r = Null /\ selectedResource # Null
       \/ /\ ~loading /\ error = Undefined /\ activeTab = "explorer"
          /\ r # Null
          /\ r.version = listVersion
          /\ \E i \in 1..Len(resources) : resources[i].urn = r.urn
       \/ /\ HunterMounted /\ hunterResult # Null
          /\ r = [urn |-> OrphanArn, version |-> -1]
    /\ selectedResource' = r
    /\ UNCHANGED <<activeTab, listVersion, hunterResult, hunterScanning, hunterError,
                   hunterConfig, edited, scanReq, configPc, posted, saved>>
    /\ UNCHANGED <<varsTree, varsScan, varsApp, varsRender, varsListen>>

\* the user types text in field k of the hunt configuration
SetConfig(k, text) ==
    /\ HunterMounted
    /\ hunterConfig' = [hunterConfig EXCEPT ![k] = text]
    /\ edited' = [edited EXCEPT ![k] = text]
    /\ UNCHANGED <<activeTab, selectedResource, listVersion, hunterResult, hunterScanning,
                   hunterError, scanReq, configPc, posted, saved>>
    /\ UNCHANGED <<varsTree, varsScan, varsApp, varsRender, varsListen>>

\* scan, up to its await: a click on Start Hunt, disabled while scanning; the
\* server computes the result against the STATE_FILE it has then
Scan ==
    /\ HunterMounted
    /\ ~hunterScanning
    /\ hunterScanning' = TRUE
    /\ hunterResult' = Null
    /\ hunterError' = Undefined
    /\ scanReq' = [version |-> posted]
    /\ UNCHANGED <<activeTab, selectedResource, listVersion, edited, configPc, posted, saved>>
    /\ UNCHANGED <<varsTree, varsScan, varsApp, varsRender, varsListen>>
    /\ PrefillEffect(TRUE)

\* a scan whose failure without a message sets no error
ScanSettles_noDefault(outcome, message) ==
    /\ scanReq # Null
    /\ hunterResult' = IF outcome = "ok" THEN [version |-> scanReq.version] ELSE hunterResult
    /\ hunterError' = IF outcome = "ok" THEN hunterError ELSE message
    /\ hunterScanning' = FALSE
    /\ scanReq' = Null
    /\ UNCHANGED <<activeTab, selectedResource, listVersion, edited, configPc, posted, saved>>
    /\ UNCHANGED <<varsTree, varsScan, varsApp, varsRender, varsListen>>
    /\ PrefillEffect(TRUE)

\* scan, from its await on: the response is ok, is not ok with the message
\* of its body, or fetch or res.json() threw with a message
ScanSettles(outcome, message) ==
    /\ scanReq # Null
    /\ hunterResult' = IF outcome = "ok" THEN [version |-> scanReq.version] ELSE hunterResult
    /\ hunterError' =
          IF outcome = "ok" THEN hunterError
          ELSE IF message # Undefined THEN message
          ELSE <<"S","c","a","n"," ","f","a","i","l","e","d",".">>
    /\ hunterScanning' = FALSE
    /\ scanReq' = Null
    /\ UNCHANGED <<activeTab, selectedResource, listVersion, edited, configPc, posted, saved>>
    /\ UNCHANGED <<varsTree, varsScan, varsApp, varsRender, varsListen>>
    /\ PrefillEffect(TRUE)

\* handleUpdateConfig, up to the response: POST /api/config sets STATE_FILE
HandleUpdateConfig ==
    /\ posted < MaxSaves
    /\ posted' = posted + 1
    /\ UNCHANGED <<activeTab, selectedResource, listVersion, hunterResult, hunterScanning,
                   hunterError, hunterConfig, edited, scanReq, configPc, saved>>
    /\ UNCHANGED <<varsTree, varsScan, varsApp, varsRender, varsListen>>

\* handleUpdateConfig, the .then of its response: the stale result is cleared
\* and the state is loaded again
ConfigSaved(detected) ==
    /\ saved < posted
    /\ saved' = saved + 1
    /\ hunterResult' = Null
    /\ fetchState(detected, FALSE)
    /\ UNCHANGED <<activeTab, selectedResource, listVersion, hunterScanning, hunterError,
                   edited, scanReq, configPc, posted>>
    /\ UNCHANGED <<varsTree, varsScan, varsRender, varsListen>>
    /\ PrefillEffect(TRUE)

\* the GET /api/config of the mount effect settles: its .then calls
\* fetchState, and nothing handles its rejection
ConfigSettles(ok, detected) ==
    /\ configPc = "pending"
    /\ IF ok
       THEN /\ configPc' = "loaded"
            /\ fetchState(detected, FALSE)
       ELSE /\ configPc' = "failed"
            /\ UNCHANGED varsApp
    /\ UNCHANGED <<activeTab, selectedResource, listVersion, hunterResult, hunterScanning,
                   hunterError, hunterConfig, edited, scanReq, posted, saved>>
    /\ UNCHANGED <<varsTree, varsScan, varsRender, varsListen>>

\* the refresh button, or a tick of the auto-refresh interval
Refresh ==
    /\ fetchState(NotDetected, TRUE)
    /\ UNCHANGED <<varsTree, varsScan, varsRender, varsHunter, varsListen>>

\* the state files the server answers with while the user works
UIStateFiles ==
    {[null |-> FALSE, error |-> Undefined, stack |-> s, resources |-> l] :
        s \in {<<"o","r","g","/","m","y","-","a","p","p","/","d","e","v">>},
        l \in {<<StackResource>>, <<StackResource, FnResource>>}}

NextUI ==
    \/ \E tab \in {"explorer", "hunter"} : SetActiveTab(tab)
    \/ \E r \in {Null, [urn |-> OrphanArn, version |-> -1]}
              \cup {[urn |-> x.urn, version |-> v] :
                       x \in {StackResource, FnResource}, v \in 1..MaxFetches} :
          SetSelectedResource(r)
    \/ \E k \in {"appName", "region"} : SetConfig(k, <<"x">>)
    \/ Scan
    \/ \E outcome \in {"ok", "notOk", "threw"}, message \in {Undefined, EXPIRED} :
          ScanSettles(outcome, message)
    \/ HandleUpdateConfig
    \/ \E d \in Detected : ConfigSaved(d)
    \/ \E ok \in BOOLEAN, d \in Detected : ConfigSettles(ok, d)
    \/ Refresh
    \/ \E id \in 1..MaxFetches, threw \in BOOLEAN, data \in UIStateFiles :
          GetState(id, threw, data)
    \/ \E id \in 1..MaxFetches : StateResolved(id)
    \/ \E id \in 1..MaxFetches : StateRejected(id)

\* the browser with the user at work; every request that can still be
\* answered settles in the end
SpecUI ==
    /\ InitServer
    /\ [][NextUI]_vars
    /\ WF_vars(\E ok \in BOOLEAN, d \in Detected : ConfigSettles(ok, d))
    /\ WF_vars(\E id \in 1..MaxFetches, threw \in BOOLEAN, data \in UIStateFiles :
                  GetState(id, threw, data))
    /\ WF_vars(\E id \in 1..MaxFetches : StateResolved(id))

----------------------------------------------------------------------------
(* startServer: startListening(PORT).  Ports are counted from the requested *)
(* one, and what binding a port gives does not change while the server      *)
(* starts.                                                                  *)

\* startListening(PORT) has called app.listen; ports may be free, in use, or
\* refused with another error (EACCES)
InitListen ==
    /\ InitScan
    /\ InitApp
    /\ InitRender
    /\ InitHunter
    /\ resources = <<>>
    /\ matchedUrns = {}
    /\ viewMode = "categorized"
    /\ nodeMap = <<>>
    /\ roots = <<>>
    /\ treeGroups = <<>>
    /\ calls = <<>>
    /\ overflow = FALSE
    /\ portStatus \in [0..MaxRetries -> {"free", "inUse", "denied"}]
    /\ port = 0
    /\ listenPc = "binding"
    /\ listening = {}

\* a retry that skips a port
ListenSettles_skipPort ==
    /\ listenPc = "binding"
    /\ CASE portStatus[port] = "free" ->
              /\ listening' = listening \cup {port}
              /\ listenPc' = "listening"
              /\ UNCHANGED port
         [] portStatus[port] = "inUse" ->
              /\ port + 2 <= MaxRetries
              /\ port' = port + 2
              /\ UNCHANGED <<listenPc, listening>>
         [] OTHER ->
              /\ listenPc' = "stopped"
              /\ UNCHANGED <<port, listening>>
    /\ UNCHANGED portStatus
    /\ UNCHANGED <<varsTree, varsScan, varsApp, varsRender, varsHunter>>

\* the app.listen call settles: the server listens, or its 'error' handler
\* runs, which calls startListening(port + 1) on EADDRINUSE and only logs any
\* other error
ListenSettles ==
    /\ listenPc = "binding"
    /\ CASE portStatus[port] = "free" ->
              /\ listening' = listening \cup {port}
              /\ listenPc' = "listening"
              /\ UNCHANGED port
         [] portStatus[port] = "inUse" ->
              /\ port < MaxRetries
              /\ port' = port + 1
              /\ UNCHANGED <<listenPc, listening>>
         [] OTHER ->
              /\ listenPc' = "stopped"
              /\ UNCHANGED <<port, listening>>
    /\ UNCHANGED portStatus
    /\ UNCHANGED <<varsTree, varsScan, varsApp, varsRender, varsHunter>>

\* the start of the server, every app.listen call settling in the end
SpecListen == InitListen /\ [][ListenSettles]_vars /\ WF_vars(ListenSettles)

----------------------------------------------------------------------------
(* safeRender, called on one value *)

InitSafeRender ==
    /\ InitScan
    /\ InitApp
    /\ InitHunter
    /\ Listening
    /\ resources = <<>>
    /\ matchedUrns = {}
    /\ viewMode = "categorized"
    /\ nodeMap = <<>>
    /\ roots = <<>>
    /\ treeGroups = <<>>
    /\ calls = <<>>
    /\ overflow = FALSE
    /\ value \in RenderInputs(MaxDepth, MaxFields)
    /\ rendered = NotRendered

\* the call safeRender(value)
SafeRender ==
    /\ ~rendered.done
    /\ rendered' = [done |-> TRUE, text |-> safeRender(value)]
    /\ UNCHANGED value
    /\ UNCHANGED <<varsTree, varsScan, varsApp, varsHunter, varsListen>>

NextSafeRender == SafeRender

SpecSafeRender == InitSafeRender /\ [][NextSafeRender]_vars

----------------------------------------------------------------------------
(* getResourceId and getAwsConsoleLink, called on one resource *)

InitUtils ==
    /\ InitScan
    /\ InitApp
    /\ InitHunter
    /\ Listening
    /\ resources = <<>>
    /\ matchedUrns = {}
    /\ viewMode = "categorized"
    /\ nodeMap = <<>>
    /\ roots = <<>>
    /\ treeGroups = <<>>
    /\ calls = <<>>
    /\ overflow = FALSE
    /\ value \in UtilResources
    /\ rendered = NotRendered

\* the call getResourceId(value)
GetResourceId ==
    /\ ~rendered.done
    /\ rendered' = [done |-> TRUE, fn |-> "getResourceId", text |-> getResourceId(value)]
    /\ UNCHANGED value
    /\ UNCHANGED <<varsTree, varsScan, varsApp, varsHunter, varsListen>>

\* the call getAwsConsoleLink(value)
GetAwsConsoleLink ==
    /\ ~rendered.done
    /\ rendered' = [done |-> TRUE, fn |-> "getAwsConsoleLink", text |-> getAwsConsoleLink(value)]
    /\ UNCHANGED value
    /\ UNCHANGED <<varsTree, varsScan, varsApp, varsHunter, varsListen>>

SpecUtils == InitUtils /\ [][GetResourceId \/ GetAwsConsoleLink]_vars

----------------------------------------------------------------------------
(* The forest of the last buildTree call *)

built == viewMode \in {"tree", "categorized"}

Nodes == 1..Len(nodeMap)

IsRoot(n) == \E k \in 1..Len(roots) : roots[k] = n

ChildOf(c, p) == \E k \in 1..Len(nodeMap[p].children) : nodeMap[p].children[k] = c

\* the nodes reachable from the roots through children
RECURSIVE Closure(_, _)
Closure(S, k) ==
    IF k = 0 THEN S
    ELSE Closure(S \cup {c \in Nodes : \E p \in S : ChildOf(c, p)}, k - 1)

Reachable == Closure({n \in Nodes : IsRoot(n)}, Len(nodeMap))

\* the number of places of the forest that hold node n
Places(n) ==
    Cardinality({k \in 1..Len(roots) : roots[k] = n})
    + Cardinality({pk \in Reachable \X (1..Len(nodeMap)) :
                     /\ pk[2] <= Len(nodeMap[pk[1]].children)
                     /\ nodeMap[pk[1]].children[pk[2]] = n})

HasParentInput(i) == resources[i].parent # Undefined /\ nodeMapHas(resources, resources[i].parent)

\* the resources on the chain of parent references that starts at resource i
RECURSIVE ParentChain(_, _)
ParentChain(i, k) ==
    IF k = 0 \/ ~HasParentInput(i) THEN {}
    ELSE LET p == nodeMapGet(resources, resources[i].parent)
         IN  {p} \cup ParentChain(p, k - 1)

\* resource i is on a cycle of parent references
OnCycle(i) == i \in ParentChain(i, Len(resources))

InSomeGroup(n) ==
    \E g \in 1..Len(treeGroups) : \E k \in 1..Len(treeGroups[g].nodes) : treeGroups[g].nodes[k] = n

\* the chain of nodes above n in the forest that was built
RECURSIVE Ancestors(_, _)
Ancestors(n, k) ==
    IF k = 0 THEN {}
    ELSE LET ps == {p \in Nodes : ChildOf(n, p)}
         IN  ps \cup UNION {Ancestors(p, k - 1) : p \in ps}

----------------------------------------------------------------------------
(* Claims about buildTree *)

\* C1: after buildTree every input resource is held by exactly one node that
\* is reachable from the roots exactly once; none is dropped or duplicated.
C1_EveryResourceInForestOnce ==
    built =>
        /\ Len(nodeMap) = Len(resources)
        /\ \A i \in 1..Len(resources) :
            /\ nodeMap[i].resource = i
            /\ i \in Reachable
            /\ Places(i) = 1

\* C2: buildTree terminates on every input, cycles of parent references
\* included: calculateVisibility is never called on a node twice, and its
\* call stack never grows beyond the number of nodes.
C2_VisibilityTerminates ==
    built =>
        /\ ~overflow
        /\ Len(calls) <= Len(resources)
        /\ \A j, k \in 1..Len(calls) : calls[j] = calls[k] => j = k

C2_Witness ==
    /\ viewMode = "tree"
    /\ Len(calls) >= 2
    /\ \E i \in 1..Len(resources) : resources[i].parent = resources[i].urn
    /\ \E i, j \in 1..Len(resources) :
        /\ i # j
        /\ resources[i].parent = resources[j].urn
        /\ resources[j].parent = resources[i].urn
        /\ OnCycle(i)

\* C3: at least one node of every cycle of parent references is a root, so
\* that a matched resource on a cycle appears in some returned TypeGroup.
C3_CycleBrokenAtRoot ==
    built =>
        \A i \in 1..Len(resources) :
            OnCycle(i) =>
                /\ \E j \in ParentChain(i, Len(resources)) : IsRoot(j)
                /\ nodeMap[i].isMatch =>
                      \E n \in Nodes : InSomeGroup(n) /\ (n = i \/ n \in Ancestors(i, Len(nodeMap)))

\* C6: for every node, reachable or not, isVisible holds iff the node is a
\* match or one of its children is visible.
C6_VisibleIffMatchOrChildVisible ==
    built =>
        \A n \in Nodes :
            nodeMap[n].isVisible <=>
                (nodeMap[n].isMatch \/ \E c \in Nodes : ChildOf(c, n) /\ nodeMap[c].isVisible)

\* C7: every matched resource's node and all its ancestors are visible, and
\* its root is in one of the returned TypeGroups.
C7_MatchKeepsChainVisible ==
    built =>
        \A i \in 1..Len(resources) :
            resources[i].urn \in matchedUrns =>
                /\ nodeMap[i].isVisible
                /\ \A a \in Ancestors(i, Len(nodeMap)) : nodeMap[a].isVisible
                /\ \E n \in {i} \cup Ancestors(i, Len(nodeMap)) : IsRoot(n) /\ InSomeGroup(n)

\* the number of places of the returned groups that hold node n
GroupPlaces(n) ==
    Cardinality({gk \in (1..Len(treeGroups)) \X (1..Len(nodeMap)) :
                   /\ gk[2] <= Len(treeGroups[gk[1]].nodes)
                   /\ treeGroups[gk[1]].nodes[gk[2]] = n})

\* C8: the returned TypeGroups partition the visible roots: every visible
\* root is in exactly one place of exactly one group, nothing else is in a
\* group, and a group's nodes have the group's typeName as simple type.
C8_GroupsPartitionVisibleRoots ==
    built =>
        /\ \A n \in Nodes :
            GroupPlaces(n) = (IF IsRoot(n) /\ nodeMap[n].isVisible THEN 1 ELSE 0)
        /\ \A g \in 1..Len(treeGroups) : \A k \in 1..Len(treeGroups[g].nodes) :
            /\ treeGroups[g].nodes[k] \in Nodes
            /\ getSimpleType(resources[treeGroups[g].nodes[k]].type) = treeGroups[g].typeName

C8_Witness ==
    /\ built
    /\ Len(treeGroups) = 2
    /\ \E n \in Nodes : IsRoot(n) /\ ~nodeMap[n].isVisible

\* the root rule of Tree mode, from the fields of resource i
TreeRootRule(i) ==
    \/ resources[i].parent = Undefined
    \/ Includes(resources[i].parent, STACK_MARKER)
    \/ resources[i].parent \notin UrnsOf(resources)

\* node i is held once, by the children of the node of its parent URN
ChildOfParentOnly(i) ==
    /\ ~IsRoot(i)
    /\ \A p \in Nodes : ChildOf(i, p) <=> resources[p].urn = resources[i].parent
    /\ \A p \in Nodes :
         Cardinality({k \in 1..Len(nodeMap[p].children) : nodeMap[p].children[k] = i}) <= 1

RootOnly(i) ==
    /\ Cardinality({k \in 1..Len(roots) : roots[k] = i}) = 1
    /\ \A p \in Nodes : ~ChildOf(i, p)

\* C9: in Tree mode a resource is a root iff it has no parent, its parent
\* URN contains the stack marker, or its parent URN is no input URN; every
\* other resource is a child of the node of its parent URN and of no other.
C9_TreeModeRoots ==
    viewMode = "tree" =>
        \A i \in 1..Len(resources) :
            IF TreeRootRule(i) THEN RootOnly(i) ELSE ChildOfParentOnly(i)

C9_Witness ==
    /\ viewMode = "tree"
    /\ \E i \in 1..Len(resources) : resources[i].parent = DanglingUrn /\ IsRoot(i)
    /\ \E i \in 1..Len(resources) :
         /\ resources[i].parent = StackUrn /\ IsRoot(i)
         /\ StackUrn \in UrnsOf(resources)
    /\ \E i \in 1..Len(resources) : \E p \in Nodes : ChildOf(i, p)

\* C10: in Categorized mode every resource of a promoted simple type is a
\* root and no node's child, whatever its parent; the other resources are
\* placed as in Tree mode.
C10_CategorizedPromotes ==
    viewMode = "categorized" =>
        \A i \in 1..Len(resources) :
            IF getSimpleType(resources[i].type) \in PROMOTED_TYPES \/ TreeRootRule(i)
            THEN RootOnly(i)
            ELSE ChildOfParentOnly(i)

C10_Witness ==
    /\ viewMode = "categorized"
    /\ \E i, j \in 1..Len(resources) :
        /\ getSimpleType(resources[i].type) \in PROMOTED_TYPES
        /\ resources[i].parent = resources[j].urn
        /\ ~Includes(resources[i].parent, STACK_MARKER)
        /\ IsRoot(i)
    /\ \E i \in 1..Len(resources) : \E p \in Nodes : ChildOf(i, p)

\* C17: the TypeGroups buildTree returns are in ascending alphabetical order
\* of typeName, no two with the same typeName, the nodes of a group in the
\* order of their resources in the input list; an empty input or an empty
\* matched set gives no group.
C17_GroupsSortedNodesInInputOrder ==
    built =>
        /\ \A g, h \in 1..Len(treeGroups) :
              g < h => localeCompareLess(treeGroups[g].typeName, treeGroups[h].typeName)
        /\ \A g \in 1..Len(treeGroups) :
              \A j, k \in 1..Len(treeGroups[g].nodes) :
                 j < k => nodeMap[treeGroups[g].nodes[j]].resource
                            < nodeMap[treeGroups[g].nodes[k]].resource
        /\ (resources = <<>> \/ matchedUrns = {}) => treeGroups = <<>>

\* a Bucket root comes first in the input, yet the lower-case group "aws"
\* precedes the group "Bucket", which holds two roots in input order
C17_Witness ==
    /\ built
    /\ Len(roots) = 3
    /\ resources[roots[1]].type = TypeBucket
    /\ Len(treeGroups) = 2
    /\ treeGroups[1].typeName = <<"a", "w", "s">>
    /\ treeGroups[2].typeName = <<"B", "u", "c", "k", "e", "t">>
    /\ treeGroups[2].nodes = <<1, 3>>

----------------------------------------------------------------------------
(* Claims about POST /api/scan *)

\* an observed resource no declared identity equals or ends
Unmanaged(r) ==
    /\ r.ResourceARN \notin managedIds
    /\ \A id \in managedIds : ~EndsWith(r.ResourceARN, id)

\* C4: an observed resource is reported in orphans iff its ARN is no declared
\* identity and ends with none; arn:aws:s3:::my-bucket is no orphan when
\* my-bucket is declared.
C4_OrphanIffNoIdentityMatches ==
    response.status = 200 =>
        LET expected == SelectSeq(awsResources, Unmanaged)
        IN  /\ Len(response.orphans) = Len(expected)
            /\ \A k \in 1..Len(expected) : response.orphans[k].arn = expected[k].ResourceARN
            /\ BucketId \in managedIds =>
                 \A k \in 1..Len(response.orphans) : response.orphans[k].arn # BucketArn

C4_Witness ==
    /\ response.status = 200
    /\ BucketId \in managedIds
    /\ BucketArn \notin managedIds
    /\ \E i \in 1..Len(awsResources) : awsResources[i].ResourceARN = BucketArn
    /\ \E k \in 1..Len(response.orphans) : response.orphans[k].arn = OrphanArn

\* C5: when reading the declared state fails (the read throws, or the
\* extraction of the identities throws), the scan still completes with
\* managedCount = 0 and every observed resource an orphan.
C5_FailedReadGivesEmptyManaged ==
    warned =>
        /\ (scanPc = "done" /\ caught = NoError) => response.status = 200
        /\ response.status = 200 =>
            /\ response.managedCount = 0
            /\ Len(response.orphans) = response.totalFound

\* the identity strings of a declared resource list: the id and the
\* outputs.arn of each of its resources
declaredIdentities(list) ==
    UNION { ({list[i].id} \cup {list[i].arn}) \ {Undefined} : i \in 1..Len(list) }

\* C11: in a successful scan result totalFound is the number of observed
\* resources over all pages, and managedCount the number of distinct identity
\* strings of the declared resources, whatever they matched.
C11_AggregatesCountObservedAndDeclared ==
    response.status = 200 =>
        /\ response.totalFound = Len(awsResources)
        /\ response.managedCount = Cardinality(declaredIdentities(declared.resources))

\* C12: the orphans of a scan result are a subsequence of the observed
\* resources in the order the tag query returned them across its pages, one
\* orphan at most per observed resource, and no more than totalFound.
C12_OrphansKeepObservedOrder ==
    response.status = 200 =>
        /\ Len(response.orphans) <= response.totalFound
        /\ \E at \in [1..Len(response.orphans) -> 1..Len(awsResources)] :
              /\ \A j, k \in 1..Len(response.orphans) : j < k => at[j] < at[k]
              /\ \A k \in 1..Len(response.orphans) :
                    response.orphans[k].arn = awsResources[at[k]].ResourceARN

\* a result with two different orphans, fetched in two pages
C12_Witness ==
    /\ response.status = 200
    /\ Len(pages) = 2
    /\ Len(pages[1].ResourceTagMappingList) = 1
    /\ Len(pages[2].ResourceTagMappingList) = 1
    /\ Len(response.orphans) = 2
    /\ response.orphans[1].arn # response.orphans[2].arn
    /\ response.orphans[1].arn = pages[1].ResourceTagMappingList[1].ResourceARN

\* the expired or invalid credential condition of a caught value: its name or
\* __type is ExpiredTokenException, or its message contains 'expired'
CredentialFailure(e) ==
    \/ e.name = "ExpiredTokenException"
    \/ e.type = "ExpiredTokenException"
    \/ (e.hasMessage /\ Includes(e.message, EXPIRED))

\* C13: a tag query that fails with the expired-credential condition is
\* answered with the fixed credential message, and no other failure is.
C13_CredentialMessageIffCredentialFailure ==
    /\ (scanPc \in {"done", "rejected"} /\ caught # NoError /\ CredentialFailure(caught)) =>
          /\ response.status = 500
          /\ response.error = CREDENTIAL_MESSAGE
    /\ response.error = CREDENTIAL_MESSAGE =>
          /\ caught # NoError
          /\ CredentialFailure(caught)

\* an error recognised by its message alone got the credential message, after
\* a page had been fetched
C13_Witness ==
    /\ scanPc = "done"
    /\ caught.name = "Error"
    /\ caught.type = ""
    /\ Includes(caught.message, EXPIRED)
    /\ response = ErrorResponse(500, CREDENTIAL_MESSAGE)
    /\ Len(pages) = 1

\* C14: when the tag query of a scan throws any value, a value without a
\* message included, the handler sends one error response, status 500 with
\* an error field, and no ScanResult; the request does not end unanswered.
C14_QueryFailureAnsweredOnce ==
    caught # NoError =>
        /\ scanPc = "done"
        /\ response.status = 500
        /\ response.orphans = <<>>
        /\ response.totalFound = 0

\* the resources of a sequence of pages, page after page
RECURSIVE Concat(_)
Concat(ps) ==
    IF ps = <<>> THEN <<>>
    ELSE Concat(SubSeq(ps, 1, Len(ps) - 1)) \o ps[Len(ps)].ResourceTagMappingList

\* the first request carries no token and every later one the token of the
\* response before it; the observed list is the pages in order; the handler
\* reconciles only after a response without a token
PaginatesToExhaustion ==
    /\ requests # <<>> => requests[1] = 0
    /\ \A k \in 2..Len(requests) :
          /\ k - 1 <= Len(pages)
          /\ pages[k - 1].PaginationToken # 0
          /\ requests[k] = pages[k - 1].PaginationToken
    /\ \A j, k \in 1..Len(requests) : j # k => requests[j] # requests[k]
    /\ awsResources = Concat(pages)
    /\ response.status = 200 =>
          /\ pages # <<>>
          /\ Len(requests) = Len(pages)
          /\ pages[Len(pages)].PaginationToken = 0
          /\ response.totalFound = Len(Concat(pages))

\* C15: the tag query paginates to exhaustion before reconciling: each
\* request passes the previous response's PaginationToken, the observed list
\* is the concatenation of all pages in order, none skipped or fetched twice,
\* reconciliation starts only after the last page, and the loop ends once the
\* service answers without a token.
C15_PaginatesToExhaustionAndEnds ==
    /\ []PaginatesToExhaustion
    /\ (scanPc = "query") ~> (scanPc \in {"done", "rejected"})

\* a result built from two pages, the second fetched with the first's token
C15_Witness ==
    /\ response.status = 200
    /\ Len(pages) = 2
    /\ pages[1].ResourceTagMappingList # <<>>
    /\ pages[2].ResourceTagMappingList # <<>>
    /\ requests = <<0, pages[1].PaginationToken>>
    /\ response.totalFound = 2

\* the observed resource an orphan record was made from
ObservedOf(r) == CHOOSE o \in Observed : o.ResourceARN = r.arn

\* the Name tags of an observed resource
NameTags(o) == {i \in 1..Len(o.Tags) : o.Tags[i].Key = "Name"}

\* C16: of every orphan, type is the 3rd colon-delimited field of the ARN,
\* tags maps each tag key of the observed resource to its value, and name is
\* the value of the Name tag when there is one, whatever the value, and the
\* last segment of the ARN split on ':' and '/' otherwise.
C16_OrphanTypeTagsName ==
    response.status = 200 =>
        \A k \in 1..Len(response.orphans) :
            LET r == response.orphans[k]
                o == ObservedOf(r)
                segs == Split(o.ResourceARN, {":", "/"})
            IN  /\ o.ResourceARN # Undefined => r.type = Split(o.ResourceARN, {":"})[3]
                /\ DOMAIN r.tags = {o.Tags[i].Key : i \in 1..Len(o.Tags)}
                /\ \A i \in 1..Len(o.Tags) : r.tags[o.Tags[i].Key] = o.Tags[i].Value
                /\ NameTags(o) # {} => \E i \in NameTags(o) : r.name = o.Tags[i].Value
                /\ (NameTags(o) = {} /\ o.ResourceARN # Undefined) => r.name = segs[Len(segs)]

\* C18: when GET /api/state answers a fetch with an error status and an
\* {error} body, the handling of that answer leaves the UI's error state set:
\* it does not show an empty resource list with the error cleared.
C18_StateErrorShown ==
    handled.status = 500 => error # Undefined

\* C19: after every successful state fetch each of app, stage, region and
\* account of the metadata is a non-empty string.
C19_MetadataFieldsNonEmpty ==
    (handled.by = "then" /\ handled.status = 200) =>
        /\ metadata.app # Undefined
        /\ metadata.stage # Undefined
        /\ metadata.region # Undefined
        /\ metadata.account # Undefined

\* the objects v is or contains that carry a ciphertext: a ciphertext field
\* holding a non-empty string
RECURSIVE Envelopes(_)
Envelopes(v) ==
    IF v.t # "object" THEN {}
    ELSE (IF Get(v, CIPHERTEXT).t = "string" /\ Get(v, CIPHERTEXT).s # <<>> THEN {v} ELSE {})
         \cup UNION {Envelopes(v.fields[k]) : k \in DOMAIN v.fields}

\* C20: for every value that is or contains an encrypted-secret envelope,
\* the string safeRender returns is the redaction placeholder or contains
\* none of the envelope's ciphertext, and a value rendered as its compact
\* JSON form has no such envelope in it.
C20_NoSecretMaterialRendered ==
    rendered.done =>
        /\ \A e \in Envelopes(value) :
              \/ rendered.text = ENCRYPTED_SECRET
              \/ ~Includes(rendered.text, e.fields[CIPHERTEXT].s)
        /\ (value.t = "object" /\ rendered.text = stringify(value)) => Envelopes(value) = {}

\* the display id the precedence rule gives for resource r: the id, else the
\* last colon-segment of the ARN, else the rendered name, else the last
\* segment of the URN, else N/A
PrecedenceId(r) ==
    LET arn == Get(r.outputs, <<"a","r","n">>)
        name == Get(r.outputs, NAME)
        parts == SplitOn(r.urn, <<":",":">>)
    IN  IF r.id.t = "string" /\ r.id.s # <<>> THEN r.id.s
        ELSE IF arn.t = "string" /\ arn.s # <<>> /\ ~Includes(arn.s, CIPHERTEXT)
             THEN SplitPop(arn.s, ":")
        ELSE IF Truthy(name) THEN safeRender(name)
        ELSE IF parts[Len(parts)] # <<>> THEN parts[Len(parts)]
        ELSE <<"N","/","A">>

\* r is an API-gateway route with a route key
IsRouteWithKey(r) ==
    /\ Includes(r.type, <<"a","p","i","g","a","t","e","w","a","y">>)
    /\ Includes(toLowerCase(r.type), <<"r","o","u","t","e">>)
    /\ Truthy(Get(r.outputs, <<"r","o","u","t","e","K","e","y">>))

\* C21: getResourceId returns the display id of the precedence rule, and for
\* an API-gateway route with a routeKey that id followed by " : " and the
\* routeKey.
C21_ResourceIdByPrecedence ==
    (rendered.done /\ rendered.fn = "getResourceId") =>
        rendered.text =
            IF IsRouteWithKey(value)
            THEN PrecedenceId(value) \o <<" ",":"," ">>
                 \o Get(value.outputs, <<"r","o","u","t","e","K","e","y">>).s
            ELSE PrecedenceId(value)

\* the string getAwsConsoleLink reads the ARN from: outputs.arn, else the id
ArnOf(r) ==
    IF Truthy(Get(r.outputs, <<"a","r","n">>)) THEN Get(r.outputs, <<"a","r","n">>)
    ELSE IF Truthy(r.id) THEN r.id ELSE UndefinedValue

\* the services getAwsConsoleLink has a URL template for
RecognizedServices ==
    {<<"l","a","m","b","d","a">>, <<"s","3">>, <<"d","y","n","a","m","o","d","b">>, <<"s","q","s">>, <<"s","n","s">>, <<"r","d","s">>, <<"s","t","a","t","e","s">>, <<"l","o","g","s">>, <<"a","p","i","g","a","t","e","w","a","y">>, <<"i","a","m">>,
     <<"e","v","e","n","t","s">>, <<"c","o","g","n","i","t","o","-","i","d","p">>, <<"s","e","c","r","e","t","s","m","a","n","a","g","e","r">>, <<"a","c","m">>, <<"c","l","o","u","d","f","r","o","n","t">>, <<"a","p","p","s","y","n","c">>, <<"k","i","n","e","s","i","s">>, <<"e","c","2">>}

\* C22: getAwsConsoleLink returns null for a resource with no ARN and no id
\* and for an ARN with fewer than the six colon-separated fields of an ARN,
\* returns the console-home link for a well-formed ARN of an unrecognized
\* service, and never returns a URL containing "undefined".
C22_NoLinkFromMissingArnParts ==
    (rendered.done /\ rendered.fn = "getAwsConsoleLink") =>
        LET a == ArnOf(value)
            isArn == a.t = "string" /\ Len(a.s) >= 8 /\ SubSeq(a.s, 1, 8) = <<"a","r","n",":","a","w","s",":">>
            fields == SplitOn(a.s, <<":">>)
            region == IF Truthy(Get(value.outputs, <<"r","e","g","i","o","n">>))
                      THEN Get(value.outputs, <<"r","e","g","i","o","n">>).s ELSE DEFAULT_REGION
        IN  /\ a.t = "undefined" => rendered.text = Undefined
            /\ (isArn /\ Len(fields) < 6) => rendered.text = Undefined
            /\ (isArn /\ Len(fields) >= 6 /\ fields[3] \notin RecognizedServices) =>
                  rendered.text = <<"h","t","t","p","s",":","/","/">> \o region \o <<".","c","o","n","s","o","l","e",".","a","w","s",".","a","m","a","z","o","n",".","c","o","m","/","c","o","n","s","o","l","e","/","h","o","m","e","?","r","e","g","i","o","n","=">> \o region
            /\ ~Includes(rendered.text, <<"u","n","d","e","f","i","n","e","d">>)

\* C23: the hunter's scan result changes only in a step that starts a scan,
\* settles a scan or handles a saved state path: a tab switch, a selection,
\* a deselection and a foreground or background refresh leave it unchanged.
C23_ScanResultPersists ==
    [][hunterResult' # hunterResult =>
          \/ scanReq = Null /\ scanReq' # Null
          \/ scanReq # Null /\ scanReq' = Null
          \/ saved' = saved + 1]_vars

\* a result is shown after the user left the hunter tab and selected a
\* resource of a list that a refresh brought
C23_Witness ==
    /\ hunterResult # Null
    /\ scanReq = Null
    /\ activeTab = "explorer"
    /\ selectedResource # Null
    /\ listVersion = 2

\* the ports at or above the requested one that are free
FreePorts == {p \in 0..MaxRetries : portStatus[p] = "free"}

\* some port is free and binding no port below the lowest free one fails with
\* another error than EADDRINUSE
OnlyInUseBelowFree ==
    /\ FreePorts # {}
    /\ \A p \in 0..MaxRetries : (\A q \in FreePorts : p < q) => portStatus[p] = "inUse"

\* C24: startListening moves on only from a port in use and only to the next
\* port, never listens on more than one port, stays stopped after another
\* listen error, and when some port at or above the requested one is free and
\* the ports below it are in use, the server eventually listens on the lowest
\* free port.
C24_ListensOnLowestFreePort ==
    /\ [][port' # port => (portStatus[port] = "inUse" /\ port' = port + 1)]_vars
    /\ [](Cardinality(listening) <= 1)
    /\ [][listenPc = "stopped" => (listenPc' = "stopped" /\ listening' = {})]_vars
    /\ [](listenPc = "stopped" => portStatus[port] = "denied" /\ listening = {})
    /\ OnlyInUseBelowFree ~>
          (listenPc = "listening" /\ \A p \in 0..MaxRetries :
              p \in listening <=> (p \in FreePorts /\ \A q \in FreePorts : p <= q))

\* the server listens on the third port after two ports in use
C24_Witness ==
    /\ listenPc = "listening"
    /\ listening = {2}
    /\ portStatus[0] = "inUse"
    /\ portStatus[1] = "inUse"

\* C25: once the response of a saved state path has been handled, the hunter
\* shows no scan result that the server computed against an earlier
\* STATE_FILE.
C25_NoStaleScanResultAfterSave ==
    hunterResult # Null => hunterResult.version >= saved

\* C26: the response of an older fetchState call never replaces the resources
\* and metadata that a call issued after it has brought: when it is handled
\* after the newer one's, what is displayed stays.
C26_OlderFetchNeverOverwritesNewer ==
    [][listVersion' < listVersion => (resources' = resources /\ metadata' = metadata)]_vars

\* C27: a field of the hunt configuration that the user has edited keeps the
\* value last typed: no refresh and no failed scan puts the value derived
\* from the metadata back.
C27_EditedConfigStays ==
    \A k \in {"appName", "stage", "region"} :
        edited[k] # Undefined => hunterConfig[k] = edited[k]

\* C28: the step that starts a scan sets scanning and clears result and
\* error; the step in which a scan settles leaves scanning false and exactly
\* one of result and error non-null; scanning is true only while the request
\* has not settled.
C28_ScanLifecycle ==
    /\ [][(scanReq = Null /\ scanReq' # Null) =>
            (hunterScanning' /\ hunterResult' = Null /\ hunterError' = Undefined)]_vars
    /\ [][(scanReq # Null /\ scanReq' = Null) =>
            (~hunterScanning' /\ ((hunterResult' # Null) # (hunterError' # Undefined)))]_vars
    /\ [](hunterScanning <=> scanReq # Null)

\* a scan has failed without a message: the default error is shown
C28_Witness ==
    /\ scanReq = Null
    /\ ~hunterScanning
    /\ hunterResult = Null
    /\ hunterError = <<"S","c","a","n"," ","f","a","i","l","e","d",".">>

\* the resource of the list that has the URN of selection sel
Listed(sel, list) == sel # Null /\ \E i \in 1..Len(list) : list[i].urn = sel.urn

\* C29: in the step that installs a new resources list and runs the sync
\* effect, the selection ends null or as the element of the new list with its
\* URN; it is cleared when its URN is not in the new list and kept open, on
\* the same URN, when it is.
C29_SelectionFollowsResources ==
    [][listVersion' # listVersion =>
          /\ selectedResource' # Null =>
                (Listed(selectedResource', resources')
                    /\ selectedResource'.version = listVersion')
          /\ (selectedResource # Null /\ ~Listed(selectedResource, resources')) =>
                selectedResource' = Null
          /\ Listed(selectedResource, resources') =>
                (selectedResource' # Null /\ selectedResource'.urn = selectedResource.urn)]_vars

\* a selection made on the first list is open on the element of the second
C29_Witness ==
    /\ listVersion = 2
    /\ handled = [id |-> 2, by |-> "then", status |-> 200]
    /\ selectedResource = [urn |-> FnResource.urn, version |-> 2]
    /\ activeTab = "explorer"
    /\ hunterResult = Null

\* C30: after the app starts loading is false at some point, whether the
\* requests for the configuration and the state succeed or fail, and a
\* fetchState call in the background leaves loading as it is.
C30_LoadingEventuallyCleared ==
    /\ <>(~loading)
    /\ [][\A f \in fetches' : (f \notin fetches /\ f.background) => loading' = loading]_vars

====
